---- MODULE Spec2Model ----
(***************************************************************************)
(* Model of the agentic PDF form-filling back end.                         *)
(*                                                                         *)
(*   Spec     one call of FormProcessingOrchestrator.runFormFillingWorkflow *)
(*            (src/src/mcp-servers/src/index.ts): five stages, the         *)
(*            per-run cache, the responses of every exit.                  *)
(*   SvcSpec  OrchestrationService (orchestration.service.ts) driving      *)
(*            WorkflowOrchestrator.runPdfAnalysisWorkflow                  *)
(*            (src/unnamed/part_002): registry, status, clear.             *)
(*   SvcFairSpec  SvcSpec with weak fairness on every step the Node event  *)
(*            loop is bound to take.                                       *)
(*   MapSpec  FieldMappingService.mapFieldsHandler / mapFields             *)
(*            (src/unnamed/part_004) applied to requests drawn from a      *)
(*            pool of form fields and donor keys.                          *)
(*   PureSpec one FieldMappingService instance answering several requests  *)
(*            in a row.                                                    *)
(*   UiSpec   the Home page (src/ui/src/pages/index.tsx): steps, the start *)
(*            request and the status polling, against the service.         *)
(*   FillSpec FormFillingServer.fillFormHandler (form-filling.server.ts)   *)
(*            calling PythonBridge.executePythonFunction                   *)
(*            (src/unnamed/part_005): responses, temporary scripts.        *)
(*                                                                         *)
(* Every `await` of the source is a step boundary: an action runs from the *)
(* arrival of one adapter answer to the next point where the run waits.    *)
(***************************************************************************)
EXTENDS Integers, Sequences, FiniteSets, TLC

\* ---------------------------------------------------------------- bounds
MaxRuns == 2      \* start requests the service accepts
MaxDocs == 2      \* length of donorDocumentPaths
MaxClock == 1     \* largest reading of Date.now()

Runs == 1..MaxRuns
Clock == 0..MaxClock

VARIABLES
    now,            \* last reading of Date.now()
    fpc,            \* position of the run in runFormFillingWorkflow
    fid,            \* its workflowId
    fskip,          \* options?.skipDownloadOnError as passed
    fdoc,           \* per-document outcome of extractDonorData
    forder,         \* donor documents in the order their extractions answered
    fres,           \* the WorkflowResult returned (<<>> before return)
    fev,            \* history of adapter calls and stage completions
    finfl,          \* adapter calls awaiting an answer
    workflowCache,  \* FormProcessingOrchestrator.workflowCache
    activeWorkflows,\* OrchestrationService.activeWorkflows
    analysisCache,  \* WorkflowOrchestrator.workflowCache
    spc,            \* request -> position in runWorkflowAsync
    sid,            \* request -> workflowId given by the service
    oid,            \* request -> workflowId chosen inside the orchestrator
    sres,           \* request -> result of runPdfAnalysisWorkflow
    stalled,        \* request -> its adapter call will never be answered
    reply,          \* last HTTP reply of the service
    mreq,           \* body of the POST /map-fields request being handled
    mres,           \* its response (<<>> before the handler has answered)
    mconf,          \* FieldMappingService.confidenceThreshold
    mlog,           \* the earlier requests of the service with their responses
    activeStep,     \* Home: the activeStep state of the page
    uworkflowId,    \* Home: the workflowId state
    resultUrl,      \* Home: the resultUrl state
    upc,            \* submit -> position of handleStartWorkflow / pollWorkflowStatus
    ulast,          \* submit -> the last data.status its polling received
    uevent,         \* the last thing the page did
    hreq,           \* request -> body and file system as fillFormHandler sees them
    hpc,            \* request -> position in fillFormHandler
    hsent,          \* request -> the responses sent on its res
    hran,           \* request -> the fillers run for it, with their outcomes
    bpc,            \* call -> position in executePythonFunction
    bpath,          \* call -> its tempScriptPath
    bfiles,         \* script directory: path -> the call whose script it holds
    bran,           \* call -> the script its Python process executed
    bdel,           \* call -> the script its close handler removed
    bcrashed        \* an exception has escaped a close handler

fvars == <<fpc, fid, fskip, fdoc, forder, fres, fev, finfl, workflowCache>>
svars == <<activeWorkflows, analysisCache, spc, sid, oid, sres, stalled, reply>>
mvars == <<mreq, mres, mconf, mlog>>
uvars == <<activeStep, uworkflowId, resultUrl, upc, ulast, uevent>>
hvars == <<hreq, hpc, hsent, hran>>
bvars == <<bpc, bpath, bfiles, bran, bdel, bcrashed>>
\* the page, the form-filling server and the Python bridge
ovars == <<uvars, hvars, bvars>>
vars == <<now, fvars, svars, ovars, mvars, ovars>>

\* ------------------------------------------------------- JavaScript values
\* null is <<>>, a present value v is <<v>>; a key that is absent from an
\* object is not in the DOMAIN of the function that models the object.
Null == <<>>
Some(v) == <<v>>
NoData == [k \in {} |-> Null]
SpreadFirstWins(a, b) == a @@ b
Spread(a, b) == b @@ a          \* {...a, ...b}: b wins
Put(m, k, v) == (k :> v) @@ m   \* Map.set
Delete(m, k) == [x \in (DOMAIN m) \ {k} |-> m[x]]   \* Map.delete

\* What the HTTP collaborator does with one axios.post:
\*   success  answers {status: 'success', ...}
\*   invalid  answers without status 'success'
\*   reject   axios rejects with an Error carrying a message
\*   throws   axios rejects with a value that has no readable .message
\*            (null/undefined), so the wrapper's own catch block throws
AdapterOutcomes == {"success", "invalid", "reject", "throws"}

RejectMessage == "connect ECONNREFUSED"
\* the error text inside a response whose status is not 'success'
ResponseError == "Unsupported analysis provider"
TypeErrorMessage == "Cannot read properties of undefined (reading 'message')"
DownloadPath == "/uploads/downloads/form.pdf"
FormFields == <<"first_name", "city">>
FilledForm == [path |-> "/uploads/filled-form.pdf", filename |-> "filled-form.pdf"]

Return(result) == [kind |-> "return", result |-> result]
Throw(msg) == [kind |-> "throw", message |-> msg]
Failure(message, error) ==
    [status |-> "failure", message |-> message, error |-> Some(error), data |-> NoData]
Success(message, data) ==
    [status |-> "success", message |-> message, error |-> Null, data |-> data]

\* The shared tail of every wrapper: try { post } ... catch (error) {...}
Wrapper(o, okResult, failMessage, invalidError) ==
    CASE o = "success" -> Return(okResult)
      [] o = "invalid" -> Return(Failure(failMessage, invalidError))
      [] o = "reject"  -> Return(Failure(failMessage, RejectMessage))
      [] o = "throws"  -> Throw(TypeErrorMessage)

downloadPdf(o) ==
    Wrapper(o, Success("PDF downloaded successfully", "path" :> Some(DownloadPath)),
            "PDF download failed", "Invalid response from Puppeteer server")

extractFormFields(exists, o) ==
    IF ~exists
    THEN Return(Failure("PDF file not found", "File does not exist at path"))
    ELSE Wrapper(o, Success("Form fields extracted successfully",
                            "fields" :> Some(FormFields)),
                 "Field extraction failed", "Invalid response from AI Analysis server")

\* extractedData of the d-th donor document: key 0 is defined by every
\* document, key d only by document d.
DocData(d) == [k \in {0, d} |-> d]

extractDonorData(d, exists, o) ==
    IF ~exists
    THEN Return(Failure("Donor document not found", "File does not exist at path"))
    ELSE Wrapper(o, Success("Donor data extracted successfully",
                            "extractedData" :> Some(DocData(d))),
                 "Donor data extraction failed",
                 "Invalid response from Document Extraction server")

\* The answer of POST /map-fields as the orchestrator sees it: the first
\* form field is mapped from donor key 0 when the donor record has it.
MappedFieldsOf(donorData) ==
    IF 0 \in DOMAIN donorData
    THEN <<[fieldName |-> FormFields[1], value |-> donorData[0]]>>
    ELSE <<>>

UnmappedFormFieldsOfAll(donorData) == FormFields
\* request.formFields.filter(field => !mappedFields.some(mapping =>
\* mapping.fieldName === field.name)) of the same answer
UnmappedFormFieldsOf(donorData) ==
    SelectSeq(FormFields,
              LAMBDA name : ~\E i \in 1..Len(MappedFieldsOf(donorData)) :
                                MappedFieldsOf(donorData)[i].fieldName = name)

mapFieldsToData(donorData, o) ==
    Wrapper(o, Success("Fields mapped successfully",
                       ("mappedFields" :> Some(MappedFieldsOf(donorData))) @@
                       ("unmappedFormFields" :>
                            Some(UnmappedFormFieldsOf(donorData)))),
            "Field mapping failed", "Invalid response from Field Mapping service")

fillForm(exists, o) ==
    IF ~exists
    THEN Return(Failure("Form not found", "File does not exist at path"))
    ELSE Wrapper(o, Success("Form filled successfully", "filledForm" :> Some(FilledForm)),
                 "Form filling failed", "Invalid response from Form Filling server")

\* ------------------------------------------ runFormFillingWorkflow (index.ts)
SkipOptions == {"unset", "true", "false"}
\* options?.skipDownloadOnError ?? true
skipDownloadOnError(opt) == IF opt = "unset" THEN TRUE ELSE opt = "true"
ExposedPathInverted(skip) == IF skip THEN Some(DownloadPath) ELSE Null
\* skipDownloadOnError ? null : formPath
ExposedPath(skip) == IF skip THEN Null ELSE Some(DownloadPath)
\* result.status === 'failure'
StageFailed(result) == result.status = "failure"
CacheKeyOfRun(id, stage) == <<id, "run">>
\* `${workflowId}-${stage}`
CacheKey(id, stage) == <<id, stage>>
FormWorkflowId(t) == <<"form-filling", t>>

RECURSIVE CombineDonorData(_)
\* donorDataResults.reduce(...): later documents override earlier ones
CombineDonorData(doc) ==
    IF doc = <<>> THEN [k \in {} |-> 0]
    ELSE LET n == Len(doc)
             combined == CombineDonorData(SubSeq(doc, 1, n - 1))
         IN IF doc[n] = "success" THEN Spread(combined, DocData(n)) ELSE combined

FirstSettled(doc) == \E d \in 1..Len(doc) : doc[d] # "pending"
\* await Promise.all(donorDataPromises): every extraction has answered
AllSettled(doc) == \A d \in 1..Len(doc) : doc[d] # "pending"

CallEv(stage) == [kind |-> "call", stage |-> stage, ok |-> TRUE]
\* the axios.post that extractDonorData issues for the d-th document
DonorCallEv(d) == [kind |-> "call", stage |-> "donor-data", ok |-> TRUE, doc |-> d]
DonorCallsRepeated(doc) ==
    [i \in 1..(2 * Len(doc)) |-> DonorCallEv(((i - 1) % Len(doc)) + 1)]
\* donorDocumentPaths.map(async ...): the callback runs once per document, in
\* list order, up to its first await; documents that fs.existsSync does not
\* find get no request
DonorCalls(doc) ==
    LET pending == {d \in 1..Len(doc) : doc[d] = "pending"}
    IN [i \in 1..Cardinality(pending) |->
           DonorCallEv(CHOOSE d \in pending :
                          Cardinality({e \in pending : e < d}) = i - 1)]
DoneEv(stage, ok) == [kind |-> "done", stage |-> stage, ok |-> ok]

Waiting(pc, doc, puts, evs, infl) ==
    [pc |-> pc, res |-> Null, doc |-> doc, puts |-> puts, evs |-> evs, infl |-> infl]
Finish(result, doc, puts, evs) ==
    [pc |-> "done", res |-> Some(result), doc |-> doc, puts |-> puts, evs |-> evs,
     infl |-> {}]

\* index.ts 293-334: the answer of fillForm
AfterFill(w, doc, puts, evs) ==
    LET donorData == CombineDonorData(doc)
        mappedFields == MappedFieldsOf(donorData)
        formPath == ExposedPath(skipDownloadOnError(fskip))
    IN IF w.kind = "throw"
       THEN Finish([status |-> "failure", message |-> "Form filling failed",
                    error |-> Some(w.message),
                    data |-> ("formPath" :> formPath) @@
                             ("mappedFields" :> Some(mappedFields))],
                   doc, puts, evs \o <<DoneEv("filled-form", FALSE)>>)
       ELSE IF StageFailed(w.result)
       THEN Finish([w.result EXCEPT !.data =
                        Spread(w.result.data, ("formPath" :> formPath) @@
                                              ("mappedFields" :> Some(mappedFields)))],
                   doc, puts, evs \o <<DoneEv("filled-form", FALSE)>>)
       ELSE Finish(Success("Form filling workflow completed successfully",
                       ("originalFormPath" :> Some(DownloadPath)) @@
                       ("filledFormPath" :> Some(w.result.data["filledForm"][1].path)) @@
                       ("extractedFields" :> Some(Len(FormFields))) @@
                       ("filledFormFilename" :>
                            Some(w.result.data["filledForm"][1].filename)) @@
                       ("mappedFields" :> Some(Len(mappedFields))) @@
                       ("unmappedFields" :>
                            Some(Len(UnmappedFormFieldsOf(donorData)))) @@
                       ("donorDataFields" :> Some(Cardinality(DOMAIN donorData)))),
                   doc,
                   puts \o <<<<CacheKey(fid, "filled-form"), w.result>>>>,
                   evs \o <<DoneEv("filled-form", TRUE)>>)

\* index.ts 249-292: the answer of mapFieldsToData, then the call of fillForm
AfterMapping(w, existsForm, doc, puts, evs) ==
    LET donorData == CombineDonorData(doc)
        formPath == ExposedPath(skipDownloadOnError(fskip))
    IN IF w.kind = "throw"
       THEN Finish([status |-> "failure", message |-> "Field mapping failed",
                    error |-> Some(w.message),
                    data |-> ("formPath" :> formPath) @@
                             ("fields" :> Some(FormFields)) @@
                             ("donorData" :> IF Cardinality(DOMAIN donorData) > 0
                                             THEN Some(donorData) ELSE Null)],
                   doc, puts, evs \o <<DoneEv("mapping", FALSE)>>)
       ELSE IF StageFailed(w.result)
       THEN Finish([w.result EXCEPT !.data =
                        Spread(w.result.data, "formPath" :> formPath)],
                   doc, puts, evs \o <<DoneEv("mapping", FALSE)>>)
       ELSE LET puts2 == puts \o <<<<CacheKey(fid, "mapping"), w.result>>>>
                evs2 == evs \o <<DoneEv("mapping", TRUE)>>
            IN IF existsForm
               THEN Waiting("filled-form", doc, puts2,
                            evs2 \o <<CallEv("filled-form")>>, {<<"filled-form", 0>>})
               ELSE AfterFill(fillForm(FALSE, "success"), doc, puts2, evs2)

someDonorExtractionFailed(doc) == \E d \in 1..Len(doc) : doc[d] = "failure"
\* donorDataResults.every(result => result.status === 'failure')
allDonorExtrationsFailed(doc) == \A d \in 1..Len(doc) : doc[d] = "failure"

AfterDonorDataAnyLength(doc, puts, evs) ==
    LET formPath == ExposedPath(skipDownloadOnError(fskip))
    IN IF allDonorExtrationsFailed(doc)
       THEN Finish([status |-> "failure",
                    message |-> "All donor data extractions failed",
                    error |-> Some("Failed to extract data from any donor documents"),
                    data |-> ("formPath" :> formPath) @@
                             ("fields" :> Some(FormFields))],
                   doc, puts, evs \o <<DoneEv("donor-data", FALSE)>>)
       ELSE Waiting("mapping", doc,
                    puts \o <<<<CacheKey(fid, "donor-data"), CombineDonorData(doc)>>>>,
                    evs \o <<DoneEv("donor-data", TRUE), CallEv("mapping")>>,
                    {<<"mapping", 0>>})
\* index.ts 212-248: all donor extractions have answered
AfterDonorData(doc, puts, evs) ==
    LET formPath == ExposedPath(skipDownloadOnError(fskip))
    IN IF allDonorExtrationsFailed(doc) /\ Len(doc) > 0
       THEN Finish([status |-> "failure",
                    message |-> "All donor data extractions failed",
                    error |-> Some("Failed to extract data from any donor documents"),
                    data |-> ("formPath" :> formPath) @@
                             ("fields" :> Some(FormFields))],
                   doc, puts, evs \o <<DoneEv("donor-data", FALSE)>>)
       ELSE Waiting("mapping", doc,
                    puts \o <<<<CacheKey(fid, "donor-data"), CombineDonorData(doc)>>>>,
                    evs \o <<DoneEv("donor-data", TRUE), CallEv("mapping")>>,
                    {<<"mapping", 0>>})

\* index.ts 171-212: the answer of extractFormFields, then the donor calls;
\* `existing` are the donor documents that fs.existsSync finds
AfterFields(w, existing, doc, puts, evs) ==
    LET formPath == ExposedPath(skipDownloadOnError(fskip))
    IN IF w.kind = "throw"
       THEN Finish([status |-> "failure", message |-> "Field extraction failed",
                    error |-> Some(w.message),
                    data |-> "formPath" :> formPath],
                   doc, puts, evs \o <<DoneEv("fields", FALSE)>>)
       ELSE IF StageFailed(w.result)
       THEN Finish([w.result EXCEPT !.data = "formPath" :> formPath],
                   doc, puts, evs \o <<DoneEv("fields", FALSE)>>)
       ELSE LET puts2 == puts \o <<<<CacheKey(fid, "fields"), w.result>>>>
                doc2 == [d \in 1..Len(doc) |->
                            IF d \in existing THEN "pending" ELSE "failure"]
                pending == {d \in 1..Len(doc) : d \in existing}
                evs2 == evs \o <<DoneEv("fields", TRUE)>> \o DonorCalls(doc2)
            IN IF AllSettled(doc2)
               THEN AfterDonorData(doc2, puts2, evs2)
               ELSE Waiting("donor-data", doc2, puts2, evs2,
                            {<<"donor-data", d>> : d \in pending})

\* index.ts 142-170: the answer of downloadPdf, then the call of extractFormFields
AfterDownload(w, existsPdf, doc, puts, evs) ==
    IF w.kind = "throw"
    THEN Finish([status |-> "failure", message |-> "Form download failed",
                 error |-> Some(w.message), data |-> NoData],
                doc, puts, evs \o <<DoneEv("download", FALSE)>>)
    ELSE IF StageFailed(w.result)
    THEN Finish(w.result, doc, puts, evs \o <<DoneEv("download", FALSE)>>)
    ELSE LET puts2 == puts \o <<<<CacheKey(fid, "download"), w.result>>>>
             evs2 == evs \o <<DoneEv("download", TRUE)>>
         IN IF existsPdf
            THEN Waiting("fields", doc, puts2, evs2 \o <<CallEv("fields")>>,
                         {<<"fields", 0>>})
            ELSE AfterFields(extractFormFields(FALSE, "success"), {}, doc, puts2, evs2)

RECURSIVE SetAll(_, _)
\* workflowCache.set for every pair of puts, in order
SetAll(cache, puts) ==
    IF puts = <<>> THEN cache
    ELSE SetAll(Put(cache, puts[1][1], puts[1][2]), Tail(puts))

\* The effect of one step of the run: `returned` is the call that answered.
Resume(returned, u) ==
    /\ fpc' = u.pc
    /\ fres' = u.res
    /\ fdoc' = u.doc
    /\ fev' = fev \o u.evs
    /\ finfl' = (finfl \ returned) \cup u.infl
    /\ workflowCache' = SetAll(workflowCache, u.puts)

\* no run, no request: the state of the processes after construction
InitRuns ==
    /\ now = 0
    /\ fpc = "idle"
    /\ fid = Null
    /\ fskip = "unset"
    /\ fdoc = <<>>
    /\ forder = <<>>
    /\ fres = Null
    /\ fev = <<>>
    /\ finfl = {}
    /\ workflowCache = NoData
    /\ activeWorkflows = NoData
    /\ analysisCache = NoData
    /\ spc = [p \in Runs |-> "idle"]
    /\ sid = [p \in Runs |-> Null]
    /\ oid = [p \in Runs |-> Null]
    /\ sres = [p \in Runs |-> Null]
    /\ stalled = [p \in Runs |-> FALSE]
    /\ reply = Null
    /\ activeStep = 0
    /\ uworkflowId = Null
    /\ resultUrl = Null
    /\ upc = [p \in Runs |-> "idle"]
    /\ ulast = [p \in Runs |-> "none"]
    /\ uevent = "render"
    /\ hreq = [q \in Runs |-> NoData]
    /\ hpc = [q \in Runs |-> "idle"]
    /\ hsent = [q \in Runs |-> <<>>]
    /\ hran = [q \in Runs |-> <<>>]
    /\ bpc = [c \in Runs |-> "idle"]
    /\ bpath = [c \in Runs |-> Null]
    /\ bfiles = NoData
    /\ bran = [c \in Runs |-> Null]
    /\ bdel = [c \in Runs |-> <<>>]
    /\ bcrashed = FALSE

\* this.confidenceThreshold of the FieldMappingService constructor
\* (part_004), in hundredths
confidenceThreshold == 70

Init ==
    /\ InitRuns
    /\ mreq = NoData
    /\ mres = Null
    /\ mconf = confidenceThreshold
    /\ mlog = <<>>

\* index.ts 127-143: a caller invokes runFormFillingWorkflow with n donor
\* documents; the run reads the clock for its workflowId and calls downloadPdf.
FStart(opt, n, t) ==
    /\ fpc = "idle"
    /\ t >= now
    /\ now' = t
    /\ fid' = FormWorkflowId(t)
    /\ fskip' = opt
    /\ forder' = <<>>
    /\ Resume({}, Waiting("download", [d \in 1..n |-> "unstarted"], <<>>,
                             <<CallEv("download")>>, {<<"download", 0>>}))
    /\ UNCHANGED <<svars, mvars, ovars>>

FDownloadDone(o, existsPdf) ==
    /\ fpc = "download"
    /\ Resume({<<"download", 0>>},
              AfterDownload(downloadPdf(o), existsPdf, fdoc, <<>>, <<>>))
    /\ UNCHANGED <<now, fid, fskip, forder, svars, mvars, ovars>>

FFieldsDone(o, existing) ==
    /\ fpc = "fields"
    /\ Resume({<<"fields", 0>>},
              AfterFields(extractFormFields(TRUE, o), existing, fdoc, <<>>, <<>>))
    /\ UNCHANGED <<now, fid, fskip, forder, svars, mvars, ovars>>

FDonorDoneFailFast(d, o) ==
    /\ fpc = "donor-data"
    /\ d \in 1..Len(fdoc)
    /\ fdoc[d] = "pending"
    /\ LET w == extractDonorData(d, TRUE, o)
           status == IF w.kind = "throw" THEN "failure" ELSE w.result.status
           doc2 == IF status = "failure"
                   THEN [e \in 1..Len(fdoc) |->
                            IF fdoc[e] = "pending" THEN "failure" ELSE fdoc[e]]
                   ELSE [fdoc EXCEPT ![d] = status]
       IN Resume({<<"donor-data", e>> : e \in 1..Len(fdoc)},
                 IF AllSettled(doc2)
                 THEN AfterDonorData(doc2, <<>>, <<>>)
                 ELSE Waiting("donor-data", doc2, <<>>, <<>>, {}))
    /\ forder' = Append(forder, d)
    /\ UNCHANGED <<now, fid, fskip, svars, mvars, ovars>>
\* index.ts 199-212: one donor extraction answers; a throw of the wrapper is
\* turned into a failure result by the catch of the map callback
FDonorDone(d, o) ==
    /\ fpc = "donor-data"
    /\ d \in 1..Len(fdoc)
    /\ fdoc[d] = "pending"
    /\ LET w == extractDonorData(d, TRUE, o)
           status == IF w.kind = "throw" THEN "failure" ELSE w.result.status
           doc2 == [fdoc EXCEPT ![d] = status]
       IN Resume({<<"donor-data", d>>},
                 IF AllSettled(doc2)
                 THEN AfterDonorData(doc2, <<>>, <<>>)
                 ELSE Waiting("donor-data", doc2, <<>>, <<>>, {}))
    /\ forder' = Append(forder, d)
    /\ UNCHANGED <<now, fid, fskip, svars, mvars, ovars>>

FMappingDone(o, existsForm) ==
    /\ fpc = "mapping"
    /\ Resume({<<"mapping", 0>>},
              AfterMapping(mapFieldsToData(CombineDonorData(fdoc), o), existsForm,
                           fdoc, <<>>, <<>>))
    /\ UNCHANGED <<now, fid, fskip, forder, svars, mvars, ovars>>

FFillDone(o) ==
    /\ fpc = "filled-form"
    /\ Resume({<<"filled-form", 0>>},
              AfterFill(fillForm(TRUE, o), fdoc, <<>>, <<>>))
    /\ UNCHANGED <<now, fid, fskip, forder, svars, mvars, ovars>>

Next ==
    \/ \E opt \in SkipOptions, n \in 0..MaxDocs, t \in Clock :
          FStart(opt, n, t)
    \/ \E o \in AdapterOutcomes, e \in BOOLEAN : FDownloadDone(o, e)
    \/ \E o \in AdapterOutcomes, ex \in SUBSET (1..MaxDocs) :
          FFieldsDone(o, ex)
    \/ \E d \in 1..MaxDocs, o \in AdapterOutcomes : FDonorDone(d, o)
    \/ \E o \in AdapterOutcomes, e \in BOOLEAN : FMappingDone(o, e)
    \/ \E o \in AdapterOutcomes : FFillDone(o)

Spec == Init /\ [][Next]_vars

\* ------------------- OrchestrationService over WorkflowOrchestrator (part_002)
ServiceWorkflowId(t) == <<"pdf-analysis", t>>
AnalysisWorkflowId(t) == <<"workflow", t>>
ServiceIds == {ServiceWorkflowId(t) : t \in Clock}

\* part_002 86-131: the answer of extractFormFields ends the analysis run;
\* the service passes no skipDownloadOnError, so the default applies
AnalysisAfterExtract(id, w) ==
    LET pdfPath == ExposedPath(skipDownloadOnError("unset"))
    IN IF w.kind = "throw"
       THEN [result |-> [status |-> "failure", message |-> "Field extraction failed",
                         error |-> Some(w.message), data |-> "pdfPath" :> pdfPath],
             puts |-> <<>>]
       ELSE IF StageFailed(w.result)
       THEN [result |-> [w.result EXCEPT !.data = "pdfPath" :> pdfPath], puts |-> <<>>]
       ELSE [result |-> Success("PDF analysis workflow completed successfully",
                                ("pdfPath" :> Some(DownloadPath)) @@
                                ("fields" :> w.result.data["fields"])),
             puts |-> <<<<CacheKey(id, "extraction"), w.result>>>>]

\* part_002 66-84: the answer of downloadPdf
AnalysisAfterDownload(id, w) ==
    IF w.kind = "throw"
    THEN [result |-> [status |-> "failure", message |-> "PDF download failed",
                      error |-> Some(w.message), data |-> NoData],
          puts |-> <<>>, go |-> FALSE]
    ELSE IF StageFailed(w.result)
    THEN [result |-> w.result, puts |-> <<>>, go |-> FALSE]
    ELSE [result |-> w.result, puts |-> <<<<CacheKey(id, "download"), w.result>>>>,
          go |-> TRUE]

\* part_002 240-253
getWorkflowResult(cache, workflowId) ==
    IF \/ CacheKey(workflowId, "download") \notin DOMAIN cache
       \/ CacheKey(workflowId, "extraction") \notin DOMAIN cache
    THEN Null
    ELSE Some([download |-> cache[CacheKey(workflowId, "download")],
               extraction |-> cache[CacheKey(workflowId, "extraction")]])

\* part_002 258-262
clearWorkflowCache(cache, workflowId) ==
    Delete(Delete(cache, CacheKey(workflowId, "download")),
           CacheKey(workflowId, "extraction"))

\* orchestration.service.ts 77-82 and 88-93: runWorkflowAsync records the end
\* of the run at clock reading t
recordCompletion(workflows, workflowId, status, t) ==
    Put(workflows, workflowId,
        [status |-> status,
         startTime |-> IF workflowId \in DOMAIN workflows
                       THEN workflows[workflowId].startTime ELSE t,
         completedTime |-> Some(t)])

\* orchestration.service.ts 27-53: POST /workflow/pdf-analysis with a pdfUrl.
\* The service reads the clock (t) for its workflowId and start time, then
\* runPdfAnalysisWorkflow reads it again (t2) for its own workflowId and
\* calls downloadPdf. Request slots are taken in order.
startPdfAnalysisWorkflow(p, t, t2) ==
    /\ spc[p] = "idle"
    /\ IF p = 1 THEN TRUE ELSE spc[p - 1] # "idle"
    /\ t >= now
    /\ t2 >= t
    /\ now' = t2
    /\ sid' = [sid EXCEPT ![p] = Some(ServiceWorkflowId(t))]
    /\ oid' = [oid EXCEPT ![p] = Some(AnalysisWorkflowId(t2))]
    /\ activeWorkflows' = Put(activeWorkflows, ServiceWorkflowId(t),
                              [status |-> "running", startTime |-> t,
                               completedTime |-> Null])
    /\ spc' = [spc EXCEPT ![p] = "download"]
    /\ reply' = Some([kind |-> "start", code |-> 200, status |-> "accepted",
                      workflowId |-> Some(ServiceWorkflowId(t)), result |-> Null])
    /\ UNCHANGED <<analysisCache, sres, stalled>>

\* POST /workflow/pdf-analysis sent by some other client than the page
SStart(p, t, t2) ==
    /\ startPdfAnalysisWorkflow(p, t, t2)
    /\ UNCHANGED <<fvars, mvars, ovars>>

SStartInvalidRegisters ==
    /\ reply' = Some([kind |-> "start", code |-> 400, status |-> "PDF URL is required",
                      workflowId |-> Null, result |-> Null])
    /\ activeWorkflows' = Put(activeWorkflows, ServiceWorkflowId(now),
                              [status |-> "running", startTime |-> now,
                               completedTime |-> Null])
    /\ UNCHANGED <<now, fvars, mvars, ovars, analysisCache, spc, sid, oid, sres, stalled>>
\* orchestration.service.ts 31-34: the request has no pdfUrl
SStartInvalid ==
    /\ reply' = Some([kind |-> "start", code |-> 400, status |-> "PDF URL is required",
                      workflowId |-> Null, result |-> Null])
    /\ UNCHANGED <<now, fvars, mvars, ovars, activeWorkflows, analysisCache, spc, sid, oid, sres,
                   stalled>>

\* the run of request p ends with `result` at clock reading t
SFinish(p, result, puts, t) ==
    /\ t >= now
    /\ now' = t
    /\ spc' = [spc EXCEPT ![p] = "done"]
    /\ sres' = [sres EXCEPT ![p] = Some(result.status)]
    /\ analysisCache' = SetAll(analysisCache, puts)
    /\ activeWorkflows' = recordCompletion(activeWorkflows, sid[p][1], result.status, t)

SDownloadDone(p, o, existsPdf, t) ==
    /\ spc[p] = "download"
    /\ ~stalled[p]
    /\ LET a == AnalysisAfterDownload(oid[p][1], downloadPdf(o))
       IN IF ~a.go
          THEN SFinish(p, a.result, a.puts, t)
          ELSE IF existsPdf
          THEN /\ t = now      \* no clock reading on this path
               /\ spc' = [spc EXCEPT ![p] = "extract"]
               /\ analysisCache' = SetAll(analysisCache, a.puts)
               /\ UNCHANGED <<now, sres, activeWorkflows>>
          ELSE LET b == AnalysisAfterExtract(oid[p][1], extractFormFields(FALSE, o))
               IN SFinish(p, b.result, a.puts \o b.puts, t)
    /\ UNCHANGED <<fvars, mvars, ovars, sid, oid, stalled, reply>>

SExtractDone(p, o, t) ==
    /\ spc[p] = "extract"
    /\ ~stalled[p]
    /\ LET b == AnalysisAfterExtract(oid[p][1], extractFormFields(TRUE, o))
       IN SFinish(p, b.result, b.puts, t)
    /\ UNCHANGED <<fvars, mvars, ovars, sid, oid, stalled, reply>>

\* The collaborator never answers the pending axios.post of request p. No
\* call of the source passes a timeout to axios (ServerConfig.timeout is not
\* used), so nothing else ends the call.
SStall(p) ==
    /\ spc[p] \in {"download", "extract"}
    /\ ~stalled[p]
    /\ stalled' = [stalled EXCEPT ![p] = TRUE]
    /\ UNCHANGED <<now, fvars, mvars, ovars, activeWorkflows, analysisCache, spc, sid, oid, sres, reply>>

\* orchestration.service.ts 97-134: GET /workflow/:workflowId
getWorkflowStatus(workflowId) ==
    IF workflowId \notin DOMAIN activeWorkflows
    THEN [kind |-> "status", code |-> 404, status |-> "Workflow not found",
          workflowId |-> Null, result |-> Null]
    ELSE IF activeWorkflows[workflowId].status # "running"
    THEN [kind |-> "status", code |-> 200,
          status |-> activeWorkflows[workflowId].status,
          workflowId |-> Some(workflowId),
          result |-> getWorkflowResult(analysisCache, workflowId)]
    ELSE [kind |-> "status", code |-> 200, status |-> "running",
          workflowId |-> Some(workflowId), result |-> Null]

SStatus(workflowId) ==
    /\ reply' = Some(getWorkflowStatus(workflowId))
    /\ UNCHANGED <<now, fvars, mvars, ovars, activeWorkflows, analysisCache, spc, sid, oid, sres,
                   stalled>>

\* orchestration.service.ts 144-166: DELETE /workflow/:workflowId
SClear(workflowId) ==
    /\ IF workflowId \notin DOMAIN activeWorkflows
       THEN /\ reply' = Some([kind |-> "clear", code |-> 404,
                              status |-> "Workflow not found",
                              workflowId |-> Null, result |-> Null])
            /\ UNCHANGED <<activeWorkflows, analysisCache>>
       ELSE /\ analysisCache' = clearWorkflowCache(analysisCache, workflowId)
            /\ activeWorkflows' = Delete(activeWorkflows, workflowId)
            /\ reply' = Some([kind |-> "clear", code |-> 200, status |-> "success",
                              workflowId |-> Null, result |-> Null])
    /\ UNCHANGED <<now, fvars, mvars, ovars, spc, sid, oid, sres, stalled>>

SvcNext ==
    \/ \E p \in Runs, t \in Clock, t2 \in Clock : SStart(p, t, t2)
    \/ SStartInvalid
    \/ \E p \in Runs, o \in AdapterOutcomes, e \in BOOLEAN, t \in Clock :
          SDownloadDone(p, o, e, t)
    \/ \E p \in Runs, o \in AdapterOutcomes, t \in Clock : SExtractDone(p, o, t)
    \/ \E p \in Runs : SStall(p)
    \/ \E id \in ServiceIds : SStatus(id)
    \/ \E id \in ServiceIds : SClear(id)

SvcSpec == Init /\ [][SvcNext]_vars

\* A collaborator that has not stalled answers, and the event loop then runs
\* the continuation of the run that awaits the answer.
SRunStep(p) ==
    \/ \E o \in AdapterOutcomes, e \in BOOLEAN, t \in Clock : SDownloadDone(p, o, e, t)
    \/ \E o \in AdapterOutcomes, t \in Clock : SExtractDone(p, o, t)
SvcFairSpec == SvcSpec /\ \A p \in Runs : WF_vars(SRunStep(p))

\* -------------------------------------- FieldMappingService (part_004)
MaxFields == 2    \* length of request.formFields
MaxKeys == 2      \* number of keys of request.donorData
MaxRequests == 2  \* requests one service instance handles in a row

\* String.prototype.toLowerCase, character by character
LowerOf ==
    [c \in {"A", "B", "C", "D", "E", "F", "G", "H", "I", "J", "K", "L", "M",
            "N", "O", "P", "Q", "R", "S", "T", "U", "V", "W", "X", "Y", "Z"} |->
        CASE c = "A" -> "a" [] c = "B" -> "b" [] c = "C" -> "c" [] c = "D" -> "d"
          [] c = "E" -> "e" [] c = "F" -> "f" [] c = "G" -> "g" [] c = "H" -> "h"
          [] c = "I" -> "i" [] c = "J" -> "j" [] c = "K" -> "k" [] c = "L" -> "l"
          [] c = "M" -> "m" [] c = "N" -> "n" [] c = "O" -> "o" [] c = "P" -> "p"
          [] c = "Q" -> "q" [] c = "R" -> "r" [] c = "S" -> "s" [] c = "T" -> "t"
          [] c = "U" -> "u" [] c = "V" -> "v" [] c = "W" -> "w" [] c = "X" -> "x"
          [] c = "Y" -> "y" [] c = "Z" -> "z"]
RECURSIVE LowerFrom(_, _)
LowerFrom(s, i) ==
    IF i > Len(s) THEN ""
    ELSE LET c == SubSeq(s, i, i)
         IN (IF c \in DOMAIN LowerOf THEN LowerOf[c] ELSE c) \o LowerFrom(s, i + 1)
toLowerCase(s) == LowerFrom(s, 1)
\* String.prototype.includes
includes(s, sub) ==
    \E i \in 0..(Len(s) - Len(sub)) : SubSeq(s, i + 1, i + Len(sub)) = sub
\* String.prototype.substring(0, n)
substring(s, n) == SubSeq(s, 1, IF Len(s) < n THEN Len(s) ELSE n)

\* commonFieldMappings, in the order of Object.entries
commonFieldMappings == <<
    [key |-> "firstName",
     variations |-> <<"first_name", "first", "fname", "givenname", "given_name">>],
    [key |-> "lastName",
     variations |-> <<"last_name", "last", "lname", "surname", "family_name",
                      "familyname">>],
    [key |-> "fullName",
     variations |-> <<"full_name", "name", "fullname", "complete_name",
                      "completename">>],
    [key |-> "dateOfBirth",
     variations |-> <<"dob", "date_of_birth", "birthdate", "birth_date">>],
    [key |-> "address",
     variations |-> <<"street_address", "streetaddress", "addr", "street",
                      "residence">>],
    [key |-> "addressLine1",
     variations |-> <<"address_line_1", "address1", "addr1", "street1">>],
    [key |-> "addressLine2",
     variations |-> <<"address_line_2", "address2", "addr2", "street2", "apt",
                      "unit">>],
    [key |-> "city",
     variations |-> <<"city_name", "cityname", "town", "municipality">>],
    [key |-> "state",
     variations |-> <<"state_name", "statename", "province", "region">>],
    [key |-> "zipCode",
     variations |-> <<"zip", "zip_code", "postal", "postal_code", "postalcode">>],
    [key |-> "phoneNumber",
     variations |-> <<"phone", "telephone", "phone_number", "tel", "mobile",
                      "cell">>],
    [key |-> "email",
     variations |-> <<"email_address", "emailaddress", "mail", "e-mail">>],
    [key |-> "ssn",
     variations |-> <<"social_security", "social_security_number",
                      "socialsecurity", "social">>],
    [key |-> "driversLicense",
     variations |-> <<"drivers_license", "dl_number", "license_number",
                      "licensenumber">>],
    [key |-> "gender", variations |-> <<"sex", "gender_identity">>],
    [key |-> "birthPlace",
     variations |-> <<"place_of_birth", "birth_place", "birthcity", "birth_city">>]
    >>

\* donorData is the sequence of its [key, value] entries in insertion order,
\* the order of Object.keys and Object.entries
Keys(donorData) == {donorData[i].key : i \in 1..Len(donorData)}
ValueAt(donorData, k) ==
    donorData[CHOOSE i \in 1..Len(donorData) : donorData[i].key = k].value
\* the index at which a loop with break stops: the least of hits, or 0
First(hits) ==
    IF hits = {} THEN 0 ELSE CHOOSE i \in hits : \A j \in hits : i <= j

\* formVariations.some(v => s.includes(v)) || s.includes(donorKey.toLowerCase())
Matches(s, entry) ==
    \/ \E i \in 1..Len(entry.variations) : includes(s, entry.variations[i])
    \/ includes(s, toLowerCase(entry.key))

MappingResult(fieldName, value, confidence, source) ==
    [fieldName |-> fieldName, value |-> value, confidence |-> confidence,
     source |-> source]

\* part_004 105-114: direct mapping
Tier1(formField, donorData) ==
    IF formField.name \in Keys(donorData)
    THEN Some(MappingResult(formField.name, ValueAt(donorData, formField.name),
                            100, formField.name))
    ELSE Null

\* part_004 119-133: from donor data keys to form fields
Tier2(formField, donorData) ==
    LET lcFieldName == toLowerCase(formField.name)
        e == First({i \in 1..Len(commonFieldMappings) :
                       /\ commonFieldMappings[i].key \in Keys(donorData)
                       /\ Matches(lcFieldName, commonFieldMappings[i])})
    IN IF e = 0 THEN Null
       ELSE Some(MappingResult(formField.name,
                               ValueAt(donorData, commonFieldMappings[e].key),
                               90, commonFieldMappings[e].key))

\* part_004 137-156: from form fields to donor data
Tier3(formField, donorData) ==
    LET lcFieldName == toLowerCase(formField.name)
        Hit(i, j) == /\ Matches(lcFieldName, commonFieldMappings[i])
                     /\ Matches(toLowerCase(donorData[j].key), commonFieldMappings[i])
        e == First({i \in 1..Len(commonFieldMappings) :
                       \E j \in 1..Len(donorData) : Hit(i, j)})
    IN IF e = 0 THEN Null
       ELSE LET d == First({j \in 1..Len(donorData) : Hit(e, j)})
            IN Some(MappingResult(formField.name, donorData[d].value, 85,
                                  donorData[d].key))

\* part_004 163: the donor key appears in the field description
DescriptionMatch(fieldDesc, donorKey) == includes(fieldDesc, toLowerCase(donorKey))
\* part_004 175-178: overlap of the first four characters
PrefixMatch(lcFieldName, donorKey) ==
    LET donorKeyLower == toLowerCase(donorKey)
    IN /\ Len(lcFieldName) >= 4 /\ Len(donorKeyLower) >= 4
       /\ \/ includes(lcFieldName, substring(donorKeyLower, 4))
          \/ includes(donorKeyLower, substring(lcFieldName, 4))

\* part_004 160-189: one loop over the donor entries tries the description
\* match and then the prefix match of each entry
FuzzyTiers(formField, donorData) ==
    LET fieldDesc == toLowerCase(formField.description)
        lcFieldName == toLowerCase(formField.name)
        d == First({j \in 1..Len(donorData) :
                       \/ DescriptionMatch(fieldDesc, donorData[j].key)
                       \/ PrefixMatch(lcFieldName, donorData[j].key)})
    IN IF d = 0 THEN Null
       ELSE Some(MappingResult(formField.name, donorData[d].value,
                               IF DescriptionMatch(fieldDesc, donorData[d].key)
                               THEN 80 ELSE 70,
                               donorData[d].key))

MapFieldAllTiers(formField, donorData) ==
    Tier1(formField, donorData) \o Tier2(formField, donorData)
        \o Tier3(formField, donorData) \o FuzzyTiers(formField, donorData)
\* part_004 100-190: the body of the loop for one form field that has a
\* description
MapField(formField, donorData) ==
    LET direct == Tier1(formField, donorData)
        common == Tier2(formField, donorData)
        reverse == Tier3(formField, donorData)
    IN IF direct # Null THEN direct
       ELSE IF common # Null THEN common
       ELSE IF reverse # Null THEN reverse
       ELSE FuzzyTiers(formField, donorData)

UndefinedMessage == "Cannot read properties of undefined (reading 'toLowerCase')"

RECURSIVE MapLoop(_, _, _, _)
\* part_004 100-193: the loop from field i on, then the threshold filter;
\* formField.description.toLowerCase() throws when description is undefined
MapLoop(formFields, donorData, i, results) ==
    IF i > Len(formFields)
    THEN Return(results)
    ELSE IF "description" \notin DOMAIN formFields[i]
    THEN Throw(UndefinedMessage)
    ELSE MapLoop(formFields, donorData, i + 1,
                 results \o MapField(formFields[i], donorData))

FilterDropFirst(results, threshold) ==
    IF results = <<>> THEN <<>>
    ELSE SelectSeq(Tail(results), LAMBDA r : r.confidence >= threshold)
\* results.filter(result => result.confidence >= confidenceThreshold)
Filter(results, threshold) ==
    SelectSeq(results, LAMBDA r : r.confidence >= threshold)

mapFields(formFields, donorData, threshold) ==
    LET w == MapLoop(formFields, donorData, 1, <<>>)
    IN IF w.kind = "throw" THEN w ELSE Return(Filter(w.result, threshold))

\* request.confidence || this.confidenceThreshold
AppliedThreshold(request) ==
    IF "confidence" \in DOMAIN request /\ request.confidence # 0
    THEN request.confidence ELSE mconf

unmappedFormFieldsBySource(formFields, mappedFields) ==
    SelectSeq(formFields,
              LAMBDA f : ~\E i \in 1..Len(mappedFields) :
                             mappedFields[i].source = f.name)
\* request.formFields.filter(field =>
\*     !mappedFields.some(m => m.fieldName === field.name))
unmappedFormFields(formFields, mappedFields) ==
    SelectSeq(formFields,
              LAMBDA f : ~\E i \in 1..Len(mappedFields) :
                             mappedFields[i].fieldName = f.name)
\* Object.keys(request.donorData).filter(key =>
\*     !mappedFields.some(m => m.source === key))
unmappedDonorFields(donorData, mappedFields) ==
    SelectSeq([j \in 1..Len(donorData) |-> donorData[j].key],
              LAMBDA k : ~\E i \in 1..Len(mappedFields) :
                             mappedFields[i].source = k)

\* part_004 40-71: a request is a record whose absent members are absent
\* from its DOMAIN
mapFieldsHandler(request) ==
    IF "formFields" \notin DOMAIN request \/ "donorData" \notin DOMAIN request
    THEN [code |-> 400, error |-> "Form fields and donor data are required"]
    ELSE LET threshold == AppliedThreshold(request)
             w == mapFields(request.formFields, request.donorData, threshold)
         IN IF w.kind = "throw"
            THEN [code |-> 500, error |-> "Field mapping failed",
                  message |-> w.message]
            ELSE [code |-> 200, status |-> "success",
                  mappedFields |-> w.result,
                  confidenceThreshold |-> threshold,
                  unmappedFormFields |->
                      unmappedFormFields(request.formFields, w.result),
                  unmappedDonorFields |->
                      unmappedDonorFields(request.donorData, w.result)]

\* the form fields and donor keys the requests are drawn from
FieldPool == <<
    [name |-> "city", description |-> "City of residence"],
    [name |-> "first_name", description |-> "Given name"],
    [name |-> "Town", description |-> "Town (see accountId)"],
    [name |-> "xyz", description |-> "enter client ssn here"],
    [name |-> "account_no", description |-> "Enter the SSN of the holder"],
    [name |-> "xaccount", description |-> ""],
    [name |-> "city"],
    [name |-> "first_name"] >>
KeyPool == {"city", "firstName", "fname", "ssn", "accountId"}
ValueOf(k) ==
    CASE k = "firstName" -> "Jane"
      [] k = "ssn" -> "123-45-6789"
      [] k = "city" -> "Oakland"
      [] OTHER -> "value of " \o k
\* request.confidence in hundredths
ConfidencePool == {0, 90}

RECURSIVE SeqsUpTo(_, _)
SeqsUpTo(S, n) ==
    IF n = 0 THEN {<<>>}
    ELSE LET shorter == SeqsUpTo(S, n - 1)
         IN shorter \cup {Append(q, x) : q \in shorter, x \in S}
\* the members of FieldPool at the positions S, in the order of the pool
Sublist(S) ==
    [i \in 1..Cardinality(S) |->
        FieldPool[CHOOSE p \in S : Cardinality({q \in S : q < p}) = i - 1]]
FieldLists ==
    {Sublist(S) : S \in {T \in SUBSET (1..Len(FieldPool)) :
                            Cardinality(T) <= MaxFields}}
DonorRecords ==
    {[j \in 1..Len(q) |-> [key |-> q[j], value |-> ValueOf(q[j])]] :
        q \in {r \in SeqsUpTo(KeyPool, MaxKeys) :
                  \A a, b \in 1..Len(r) : a # b => r[a] # r[b]}}
Requests ==
    {("formFields" :> f) @@ ("donorData" :> d) : f \in FieldLists, d \in DonorRecords}
    \cup {("formFields" :> f) @@ ("donorData" :> d) @@ ("confidence" :> c) :
             f \in FieldLists, d \in DonorRecords, c \in ConfidencePool}
    \cup {"formFields" :> f : f \in FieldLists}
    \cup {"donorData" :> d : d \in DonorRecords}

MapInit ==
    /\ InitRuns
    /\ mreq \in Requests
    /\ mres = Null
    /\ mconf = confidenceThreshold
    /\ mlog = <<>>

MMapFieldsStoring ==
    /\ mres = Null
    /\ mres' = Some(mapFieldsHandler(mreq))
    /\ mconf' = IF "formFields" \in DOMAIN mreq /\ "donorData" \in DOMAIN mreq
                THEN AppliedThreshold(mreq) ELSE mconf
    /\ UNCHANGED <<now, fvars, svars, ovars, mreq, mlog>>
\* POST /map-fields is handled; the handler assigns no member of the service
MMapFields ==
    /\ mres = Null
    /\ mres' = Some(mapFieldsHandler(mreq))
    /\ UNCHANGED <<now, fvars, svars, ovars, mreq, mconf, mlog>>

MapNext == MMapFields
MapSpec == MapInit /\ [][MapNext]_vars

\* The same service instance handling requests one after another. The
\* requests: one field that matches through an alias, a reverse alias or
\* exactly, with every choice of request.confidence.
ProbeRequests ==
    {r \in Requests :
        /\ "formFields" \in DOMAIN r /\ "donorData" \in DOMAIN r
        /\ r.formFields \in {Sublist({1}), Sublist({2})}
        /\ Len(r.donorData) = 1
        /\ r.donorData[1].key \in {"city", "firstName", "fname"}}

PureInit ==
    /\ InitRuns
    /\ mreq \in ProbeRequests
    /\ mres = Null
    /\ mconf = confidenceThreshold
    /\ mlog = <<>>

\* the next POST /map-fields arrives after the previous one was answered
MRequest(r) ==
    /\ mres # Null
    /\ Len(mlog) + 1 < MaxRequests
    /\ mlog' = Append(mlog, [request |-> mreq, response |-> mres[1]])
    /\ mreq' = r
    /\ mres' = Null
    /\ UNCHANGED <<now, fvars, svars, ovars, mconf>>

PureNext ==
    \/ MMapFields
    \/ \E r \in ProbeRequests : MRequest(r)
PureSpec == PureInit /\ [][PureNext]_vars

\* ------------------------------------------- the page (ui/src/pages/index.tsx)
\* What a fetch of the page can do: the service answers, or the fetch (or
\* response.json()) rejects.
FetchOutcomes == {"answer", "error"}

\* data.result?.filledForm?.path || null
ResultUrlOf(result) ==
    IF result # Null /\ "filledForm" \in DOMAIN result[1]
    THEN Some(result[1]["filledForm"].path)
    ELSE Null

\* FormUploader onNext
UNext ==
    /\ activeStep = 0
    /\ activeStep' = 1
    /\ uevent' = "next"
    /\ UNCHANGED <<now, fvars, svars, mvars, uworkflowId, resultUrl, upc, ulast,
                   hvars, bvars>>

\* DonorDocumentUploader onBack
UBack ==
    /\ activeStep = 1
    /\ activeStep' = 0
    /\ uevent' = "back"
    /\ UNCHANGED <<now, fvars, svars, mvars, uworkflowId, resultUrl, upc, ulast,
                   hvars, bvars>>

\* WorkflowProgress onStepClick: one of the four buttons of the bar is clicked
UStepClick(step) ==
    /\ activeStep' = IF step < activeStep THEN step ELSE activeStep
    /\ uevent' = "click"
    /\ UNCHANGED <<now, fvars, svars, mvars, uworkflowId, resultUrl, upc, ulast,
                   hvars, bvars>>

\* handleStartWorkflow up to its first await (DonorDocumentUploader onSubmit)
USubmit(p) ==
    /\ activeStep = 1
    /\ upc[p] = "idle"
    /\ IF p = 1 THEN TRUE ELSE upc[p - 1] # "idle"
    /\ activeStep' = 2
    /\ upc' = [upc EXCEPT ![p] = "posting"]
    /\ uevent' = "submit"
    /\ UNCHANGED <<now, fvars, svars, mvars, uworkflowId, resultUrl, ulast,
                   hvars, bvars>>

\* handleStartWorkflow after the POST: the service has registered the run and
\* answered with its workflowId (formUrl set), or rejected the request
\* (formUrl empty), or the fetch failed. With a workflowId the first status
\* request is sent.
UStartAnswered(p, o, hasUrl, t, t2) ==
    /\ upc[p] = "posting"
    /\ uevent' = "started"
    /\ IF o = "answer" /\ hasUrl
       THEN /\ startPdfAnalysisWorkflow(p, t, t2)
            /\ uworkflowId' = Some(ServiceWorkflowId(t))
            /\ upc' = [upc EXCEPT ![p] = "polling"]
            /\ UNCHANGED activeStep
       ELSE /\ t = now /\ t2 = now
            /\ reply' = IF o = "answer"
                        THEN Some([kind |-> "start", code |-> 400,
                                   status |-> "PDF URL is required",
                                   workflowId |-> Null, result |-> Null])
                        ELSE reply
            /\ activeStep' = 0
            /\ upc' = [upc EXCEPT ![p] = "stopped"]
            /\ UNCHANGED <<now, uworkflowId, activeWorkflows, analysisCache, spc, sid,
                           oid, sres, stalled>>
    /\ UNCHANGED <<fvars, mvars, resultUrl, ulast, hvars, bvars>>

\* pollWorkflowStatus: the status request of submit p is answered (or fails);
\* while the answer is neither success nor failure the next request is sent
\* after the delay
UPoll(p, o) ==
    /\ upc[p] = "polling"
    /\ uevent' = "polled"
    /\ LET data == getWorkflowStatus(sid[p][1])
       IN IF o = "error"
          THEN /\ activeStep' = 0
               /\ upc' = [upc EXCEPT ![p] = "stopped"]
               /\ ulast' = [ulast EXCEPT ![p] = "error"]
               /\ UNCHANGED <<resultUrl, reply>>
          ELSE /\ reply' = Some(data)
               /\ ulast' = [ulast EXCEPT ![p] = data.status]
               /\ IF data.code = 200 /\ data.status = "success"
                  THEN /\ resultUrl' = ResultUrlOf(data.result)
                       /\ activeStep' = 3
                       /\ upc' = [upc EXCEPT ![p] = "stopped"]
                  ELSE IF data.code = 200 /\ data.status = "failure"
                  THEN /\ activeStep' = 0
                       /\ upc' = [upc EXCEPT ![p] = "stopped"]
                       /\ UNCHANGED resultUrl
                  ELSE UNCHANGED <<activeStep, resultUrl, upc>>
    /\ UNCHANGED <<now, fvars, mvars, uworkflowId, activeWorkflows, analysisCache, spc,
                   sid, oid, sres, stalled, hvars, bvars>>

\* FilledFormViewer and its onReset (handleReset) are rendered only when
\* activeStep is 3 and resultUrl is set.
UiNext ==
    \/ UNext
    \/ UBack
    \/ \E step \in 0..3 : UStepClick(step)
    \/ \E p \in Runs : USubmit(p)
    \/ \E p \in Runs, o \in FetchOutcomes, hasUrl \in BOOLEAN, t \in Clock, t2 \in Clock :
          UStartAnswered(p, o, hasUrl, t, t2)
    \/ \E p \in Runs, o \in FetchOutcomes : UPoll(p, o)
    \/ \E p \in Runs, o \in AdapterOutcomes, e \in BOOLEAN, t \in Clock :
          SDownloadDone(p, o, e, t)
    \/ \E p \in Runs, o \in AdapterOutcomes, t \in Clock : SExtractDone(p, o, t)

UiSpec == Init /\ [][UiNext]_vars

\* --------------------- FormFillingServer.fillFormHandler (form-filling.server.ts)
\* --------------------- PythonBridge.executePythonFunction (src/unnamed/part_005)
\* How a filler ends: its promise resolves or rejects.
FillerOutcomes == {"resolve", "reject"}

\* the bodies of POST /fill-form: each member of FormFillingRequest is there
\* or not
FillBodies ==
    {[k \in present |->
         CASE k = "formPath" -> "form.pdf"
           [] k = "formData" -> "data"
           [] k = "outputFilename" -> "out.pdf"] :
        present \in SUBSET {"formPath", "formData", "outputFilename"}}

\* request.outputFilename || `filled-${path.basename(formPath)}`, joined to
\* the output directory
OutputPath(body) ==
    "filled-forms/" \o (IF "outputFilename" \in DOMAIN body
                        THEN body["outputFilename"]
                        ELSE "filled-" \o body["formPath"])

Response(code, status, message, filledForm) ==
    [code |-> code, status |-> status, message |-> message, filledForm |-> filledForm]
\* res.status(...).json(...) / res.json(...) on the res of request q
Send(q, response) == hsent' = [hsent EXCEPT ![q] = Append(hsent[q], response)]
Ran(q, filler, o) ==
    hran' = [hran EXCEPT ![q] = Append(hran[q], [filler |-> filler, outcome |-> o])]

\* what a Python process has read when the file at its script path is gone
NoScript == 0

\* part_005 42-78: the executor of the promise of call c. The script, whose
\* text carries the arguments of the call, is written to
\* temp_${Date.now()}.py in the script directory and a Python process is
\* spawned on that path. bfiles maps the clock reading in the file name to
\* the call whose script the file holds.
executePythonFunction(c, t) ==
    /\ bpath' = [bpath EXCEPT ![c] = Some(t)]
    /\ bfiles' = Put(bfiles, t, c)
    /\ bpc' = [bpc EXCEPT ![c] = "spawned"]
    /\ UNCHANGED <<bran, bdel, bcrashed>>

\* lines 121-131: a request arrives; the handler runs up to
\* `await this.validateRequest(req)`
HRequest(q, body, exists) ==
    /\ ~bcrashed
    /\ hpc[q] = "idle"
    /\ IF q = 1 THEN TRUE ELSE hpc[q - 1] # "idle"
    /\ hreq' = [hreq EXCEPT ![q] = [body |-> body, exists |-> exists]]
    /\ IF "formPath" \notin DOMAIN body \/ "formData" \notin DOMAIN body
       THEN /\ Send(q, Response(400, "error",
                                "Form path and form data are required", Null))
            /\ hpc' = [hpc EXCEPT ![q] = "done"]
       ELSE /\ hpc' = [hpc EXCEPT ![q] = "validate"]
            /\ UNCHANGED hsent
    /\ UNCHANGED <<now, fvars, svars, mvars, uvars, hran, bvars>>

\* lines 131-161: validateRequest has answered (it answers true, part_003
\* 149-152); the form is looked up and pythonBridge.fillPdf is called, which
\* is executePythonFunction('fill_pdf', ...) (part_005 140-150) reading the
\* clock at t
HValidated(q, t) ==
    /\ ~bcrashed
    /\ hpc[q] = "validate"
    /\ t >= now
    /\ IF ~hreq[q].exists
       THEN /\ Send(q, Response(404, "error", "Form not found", Null))
            /\ hpc' = [hpc EXCEPT ![q] = "done"]
            /\ t = now
            /\ UNCHANGED <<now, bvars>>
       ELSE /\ hpc' = [hpc EXCEPT ![q] = "python"]
            /\ now' = t
            /\ executePythonFunction(q, t)
            /\ UNCHANGED hsent
    /\ UNCHANGED <<fvars, svars, mvars, uvars, hreq, hran>>

\* part_005 78: the Python process of call c opens the file at its script
\* path and reads what the file holds at that moment
BRead(c) ==
    /\ ~bcrashed
    /\ bpc[c] = "spawned"
    /\ bran' = [bran EXCEPT ![c] =
                   IF bpath[c][1] \in DOMAIN bfiles
                   THEN Some(bfiles[bpath[c][1]])
                   ELSE Some(NoScript)]
    /\ bpc' = [bpc EXCEPT ![c] = "running"]
    /\ UNCHANGED <<now, fvars, svars, mvars, uvars, hvars, bpath, bfiles, bdel,
                   bcrashed>>

\* lines 153-178: pythonBridge.fillPdf has settled; on success the handler
\* answers and returns, otherwise it calls fillPdfFormJS
HPythonDone(q, o) ==
    /\ hpc[q] = "python"
    /\ Ran(q, "python", o)
    /\ IF o = "resolve"
       THEN /\ Send(q, Response(200, "success",
                                "Form filled successfully with Python FormFiller",
                                Some(OutputPath(hreq[q].body))))
            /\ hpc' = [hpc EXCEPT ![q] = "done"]
       ELSE /\ hpc' = [hpc EXCEPT ![q] = "js"]
            /\ UNCHANGED hsent

\* part_005 92-110: the 'close' listener of the process of call c.
\* fs.unlinkSync(tempScriptPath) throws when the file is gone; the listener
\* has no try around it, so the exception is uncaught, the promise of the
\* call is never settled and the server process ends (no 'uncaughtException'
\* handler is installed). Otherwise the file is removed and the promise is
\* settled, which resumes the handler. A process that found no script exits
\* with a code other than 0.
BClose(c, o) ==
    /\ ~bcrashed
    /\ bpc[c] = "running"
    /\ bran[c] = Some(NoScript) => o = "reject"
    /\ IF bpath[c][1] \notin DOMAIN bfiles
       THEN /\ bcrashed' = TRUE
            /\ bpc' = [bpc EXCEPT ![c] = "crashed"]
            /\ UNCHANGED <<bfiles, bdel, hpc, hsent, hran>>
       ELSE /\ bdel' = [bdel EXCEPT ![c] = Append(bdel[c], bfiles[bpath[c][1]])]
            /\ bfiles' = Delete(bfiles, bpath[c][1])
            /\ bpc' = [bpc EXCEPT ![c] = "closed"]
            /\ HPythonDone(c, o)
            /\ UNCHANGED bcrashed
    /\ UNCHANGED <<now, fvars, svars, mvars, uvars, hreq, bpath, bran>>

\* lines 178-196: fillPdfFormJS has settled; a rejection reaches the catch
\* of the handler
HJsDone(q, o) ==
    /\ ~bcrashed
    /\ hpc[q] = "js"
    /\ Ran(q, "js", o)
    /\ IF o = "resolve"
       THEN Send(q, Response(200, "success",
                             "Form filled successfully with JavaScript fallback",
                             Some(OutputPath(hreq[q].body))))
       ELSE Send(q, Response(500, "error", "Form filling failed", Null))
    /\ hpc' = [hpc EXCEPT ![q] = "done"]
    /\ UNCHANGED <<now, fvars, svars, mvars, uvars, hreq, bvars>>

FillNext ==
    \/ \E q \in Runs, body \in FillBodies, exists \in BOOLEAN : HRequest(q, body, exists)
    \/ \E q \in Runs, t \in Clock : HValidated(q, t)
    \/ \E c \in Runs : BRead(c)
    \/ \E c \in Runs, o \in FillerOutcomes : BClose(c, o)
    \/ \E q \in Runs, o \in FillerOutcomes : HJsDone(q, o)

FillSpec == Init /\ [][FillNext]_vars

\* ------------------------------------------------- properties of one run
StageIndex(s) ==
    CASE s = "download" -> 1 [] s = "fields" -> 2 [] s = "donor-data" -> 3
      [] s = "mapping" -> 4 [] s = "filled-form" -> 5
StageAt(i) == <<"download", "fields", "donor-data", "mapping", "filled-form">>[i]
Completed(s) == \E i \in 1..Len(fev) : fev[i] = DoneEv(s, TRUE)
FailedAt(s) == fpc = "done" /\ fev # <<>> /\ fev[Len(fev)] = DoneEv(s, FALSE)
RunFailed == fpc = "done" /\ fres # Null /\ fres[1].status = "failure"
RunSucceeded == fpc = "done" /\ fres # Null /\ fres[1].status = "success"
\* the key under which a failure response reports the output of a stage
ArtifactKey(s) ==
    CASE s = "download" -> "formPath" [] s = "fields" -> "fields"
      [] s = "donor-data" -> "donorData" [] s = "mapping" -> "mappedFields"
Carries(result, s) ==
    /\ ArtifactKey(s) \in DOMAIN result.data
    /\ result.data[ArtifactKey(s)] # Null

\* C1: the adapter calls of a run are issued in the order download, fields,
\* donor data, mapping, fill; a stage's adapter is called only after the
\* stage before it has completed with success and after no stage has failed,
\* and calls of two different stages are never in flight together.
C1_StagesSequential ==
    /\ \A i \in 1..Len(fev) :
          fev[i].kind = "call" =>
             /\ \A j \in 1..(i - 1) :
                   /\ StageIndex(fev[j].stage) <= StageIndex(fev[i].stage)
                   /\ fev[j].ok
             /\ fev[i].stage # "download" =>
                   \E j \in 1..(i - 1) :
                      fev[j] = DoneEv(StageAt(StageIndex(fev[i].stage) - 1), TRUE)
    /\ \A c \in finfl :
          /\ \A e \in finfl : e[1] = c[1]
          /\ c[1] = fpc
          /\ ~\E i \in 1..Len(fev) : fev[i].kind = "done" /\ fev[i].stage = c[1]
\* a run with two donor documents has gone through all five stages
C1_Witness == RunSucceeded /\ Len(fdoc) = 2 /\ \A d \in 1..2 : fdoc[d] = "success"

\* C2: at each of download, field extraction, mapping and fill, a failure
\* result returned by the adapter call and an error thrown by it end the run
\* the same way: status failure, no further call, the same cache writes and
\* the same artifacts in the response.
SameHandling(a, b) ==
    /\ a.pc = "done" /\ b.pc = "done"
    /\ a.res[1].status = "failure" /\ b.res[1].status = "failure"
    /\ a.infl = {} /\ b.infl = {}
    /\ a.puts = b.puts
    /\ a.res[1].data = b.res[1].data
C2_ThrowLikeFailure ==
    /\ fpc = "download" =>
          SameHandling(AfterDownload(downloadPdf("throws"), TRUE, fdoc, <<>>, <<>>),
                       AfterDownload(downloadPdf("invalid"), TRUE, fdoc, <<>>, <<>>))
    /\ fpc = "fields" =>
          SameHandling(AfterFields(extractFormFields(TRUE, "throws"), {}, fdoc, <<>>, <<>>),
                       AfterFields(extractFormFields(TRUE, "invalid"), {}, fdoc, <<>>, <<>>))
    /\ fpc = "mapping" =>
          SameHandling(AfterMapping(mapFieldsToData(CombineDonorData(fdoc), "throws"),
                                    TRUE, fdoc, <<>>, <<>>),
                       AfterMapping(mapFieldsToData(CombineDonorData(fdoc), "invalid"),
                                    TRUE, fdoc, <<>>, <<>>))
    /\ fpc = "filled-form" =>
          SameHandling(AfterFill(fillForm(TRUE, "throws"), fdoc, <<>>, <<>>),
                       AfterFill(fillForm(TRUE, "invalid"), fdoc, <<>>, <<>>))

\* C3: with suppression off, the response of a failed run carries the
\* artifact of every stage that completed before the failure.
C3_FailureCarriesArtifacts ==
    (RunFailed /\ ~skipDownloadOnError(fskip)) =>
        \A s \in {"download", "fields", "donor-data", "mapping"} :
            Completed(s) => Carries(fres[1], s)

C5_SuppressionOptIn ==
    (RunFailed /\ fskip = "unset" /\ Completed("download")) =>
        Carries(fres[1], "download")

\* --------------------------------------------- properties of the service
Started(p) == spc[p] # "idle"
Terminal(status) == status \in {"success", "failure"}

\* C6: once a run is in status success or failure, the status request
\* answers with a non-null result.
C6_TerminalStatusHasResult ==
    (reply # Null /\ reply[1].kind = "status" /\ Terminal(reply[1].status)) =>
        reply[1].result # Null

\* C7: a clear that removes the registry entry of a run leaves no stage
\* output of that run in the orchestrator's cache.
C7_ClearRemovesBoth ==
    [][\A p \in Runs :
          (/\ Started(p)
           /\ sid[p][1] \in DOMAIN activeWorkflows
           /\ sid[p][1] \notin DOMAIN activeWorkflows') =>
              \A stage \in {"download", "extraction"} :
                  CacheKey(oid[p][1], stage) \notin DOMAIN analysisCache']_vars

\* C8: a registry entry has no completedTime exactly while it is running,
\* and once it is success or failure neither its status nor its
\* completedTime changes as long as the entry exists.
C8_SingleTransition ==
    [][/\ \A id \in DOMAIN activeWorkflows :
             (activeWorkflows[id].status = "running") <=>
             (activeWorkflows[id].completedTime = Null)
       /\ \A id \in (DOMAIN activeWorkflows) \cap (DOMAIN activeWorkflows') :
             Terminal(activeWorkflows[id].status) =>
                 activeWorkflows'[id] = activeWorkflows[id]]_vars

\* C9: two started runs never have the same workflowId, neither in the
\* registry nor in the cache keys.
C9_UniqueRunIds ==
    \A p, q \in Runs :
        (p # q /\ Started(p) /\ Started(q)) => (sid[p] # sid[q] /\ oid[p] # oid[q])

\* C10: every started run reaches a terminal state and its registry entry,
\* while it exists, leaves status running.
C10_RunsTerminate ==
    \A p \in Runs :
        Started(p) ~>
            (/\ spc[p] = "done"
             /\ sid[p][1] \in DOMAIN activeWorkflows =>
                   activeWorkflows[sid[p][1]].status # "running")

\* ------------------------------------------- properties of the donor stage
\* every supplied document has an outcome: the stage has aggregated
DonorSettled ==
    /\ Completed("fields")
    /\ \A d \in 1..Len(fdoc) : fdoc[d] \in {"success", "failure"}
Succeeded == {d \in 1..Len(fdoc) : fdoc[d] = "success"}
Called(s) == \E i \in 1..Len(fev) : fev[i].kind = "call" /\ fev[i].stage = s
DonorRecord == workflowCache[CacheKey(fid, "donor-data")]

\* C11: the run fails at the donor stage, with the mapping adapter never
\* called, exactly when at least one document was supplied and every
\* extraction failed; otherwise the mapping adapter is called and the donor
\* record has exactly the keys of the successful extractions, each with the
\* value of a successful extraction.
C11_AbortIffAllFailed ==
    /\ FailedAt("donor-data") <=>
          (DonorSettled /\ Len(fdoc) > 0 /\ Succeeded = {})
    /\ FailedAt("donor-data") =>
          /\ RunFailed
          /\ ~Called("mapping")
          /\ CacheKey(fid, "donor-data") \notin DOMAIN workflowCache
    /\ (DonorSettled /\ ~FailedAt("donor-data")) =>
          /\ Called("mapping")
          /\ CacheKey(fid, "donor-data") \in DOMAIN workflowCache
          /\ DOMAIN DonorRecord = UNION {DOMAIN DocData(d) : d \in Succeeded}
          /\ \A k \in DOMAIN DonorRecord :
                \E d \in Succeeded :
                    k \in DOMAIN DocData(d) /\ DonorRecord[k] = DocData(d)[k]
\* of two documents one extraction failed and the run went on to mapping
C11_Witness ==
    /\ DonorSettled /\ Len(fdoc) = 2
    /\ fdoc[1] = "success" /\ fdoc[2] = "failure"
    /\ Called("mapping")
    /\ DOMAIN DonorRecord = DOMAIN DocData(1)

\* C12: when two documents both define a key, the donor record holds the
\* value of the one that is later in donorDocumentPaths (unless a document
\* still later in the list defines the key too), in whatever order the
\* extractions answered.
C12_LastDocumentWins ==
    DonorSettled =>
        \A a, b \in Succeeded :
            a < b =>
                \A k \in (DOMAIN DocData(a)) \cap (DOMAIN DocData(b)) :
                    (\A c \in Succeeded : c > b => k \notin DOMAIN DocData(c)) =>
                        DonorRecord[k] = DocData(b)[k]
\* both extractions succeeded and the second document answered first
C12_Witness ==
    /\ DonorSettled /\ Succeeded = {1, 2}
    /\ forder = <<2, 1>>
    /\ DonorRecord[0] = DocData(2)[0]

\* C13: in one run the download, field-extraction, mapping and fill adapters
\* are each called at most once, and the donor extractor at most once for
\* each document of donorDocumentPaths.
Calls(s) == {i \in 1..Len(fev) : fev[i].kind = "call" /\ fev[i].stage = s}
C13_NoRetry ==
    /\ \A s \in {"download", "fields", "mapping", "filled-form"} :
          Cardinality(Calls(s)) <= 1
    /\ \A i \in Calls("donor-data") : fev[i].doc \in 1..Len(fdoc)
    /\ \A i, j \in Calls("donor-data") : fev[i].doc = fev[j].doc => i = j
\* every adapter of a run with two documents has been called, after failures
\* of one extraction, and the run has ended
C13_Witness ==
    /\ fpc = "done" /\ Len(fdoc) = 2
    /\ Cardinality(Calls("donor-data")) = 2
    /\ fdoc[1] = "failure"
    /\ \A s \in {"download", "fields", "mapping", "filled-form"} :
          Cardinality(Calls(s)) = 1

\* ------------------------------------------ properties of start and clear
Rejected(r) == r # Null /\ r[1].kind = "start" /\ r[1].code = 400

\* C14: a start request without pdfUrl is answered with the validation error
\* and no workflowId, and that step changes neither the registry nor the
\* cache and starts no adapter call.
C14_InvalidStartCreatesNothing ==
    [][(Rejected(reply') /\ reply' # reply) =>
          /\ reply'[1].workflowId = Null
          /\ activeWorkflows' = activeWorkflows
          /\ analysisCache' = analysisCache
          /\ spc' = spc /\ sid' = sid /\ oid' = oid]_vars
\* a request without pdfUrl was rejected while another run was in flight
C14_Witness ==
    /\ Rejected(reply)
    /\ \E p \in Runs : spc[p] = "download"
    /\ activeWorkflows # NoData

\* C15: the start reply is accepted with the workflowId of a run that has
\* not ended; while a started run has not ended the status request for its
\* workflowId answers running, and once it has ended the request answers
\* the status the run ended with (as long as the entry was not cleared).
C15_StatusFollowsRun ==
    /\ \A p \in Runs :
          (Started(p) /\ sid[p][1] \in DOMAIN activeWorkflows) =>
              getWorkflowStatus(sid[p][1]).status =
                  IF spc[p] = "done" THEN sres[p][1] ELSE "running"
    /\ (reply # Null /\ reply[1].kind = "start" /\ reply[1].code = 200) =>
          /\ reply[1].status = "accepted"
          /\ \E p \in Runs : Started(p) /\ reply[1].workflowId = sid[p]

\* the registry entry of run p was cleared while p was still running
ClearedWhileRunning(p) ==
    /\ spc[p] \in {"download", "extract"}
    /\ sid[p][1] \notin DOMAIN activeWorkflows
ClearLeavesRuns ==
    \A id \in ServiceIds :
        (id \in DOMAIN activeWorkflows /\ id \notin DOMAIN activeWorkflows') =>
            /\ UNCHANGED <<spc, sid, oid, sres, stalled>>
            /\ \A other \in (DOMAIN activeWorkflows) \ {id} :
                  /\ other \in DOMAIN activeWorkflows'
                  /\ activeWorkflows'[other] = activeWorkflows[other]
            /\ \A k \in DOMAIN analysisCache :
                  k[1] # id => (k \in DOMAIN analysisCache'
                                /\ analysisCache'[k] = analysisCache[k])
\* C16: a clear of a running run removes only the registry entry and the
\* cached outputs of that workflowId and leaves the position of every run
\* alone, and a run cleared while running still goes through its remaining
\* adapter calls to a terminal state.
C16_ClearDoesNotCancel ==
    /\ [][ClearLeavesRuns]_vars
    /\ \A p \in Runs : ClearedWhileRunning(p) ~> (spc[p] = "done")

\* ------------------------------------------- properties of error reporting
\* the message the adapter call failed with, per way of failing
AdapterMessage(o) ==
    CASE o = "invalid" -> ResponseError
      [] o = "reject"  -> RejectMessage
      [] o = "throws"  -> TypeErrorMessage
StageMessages(s) ==
    CASE s = "download"    -> {"PDF download failed", "Form download failed"}
      [] s = "fields"      -> {"Field extraction failed"}
      [] s = "mapping"     -> {"Field mapping failed"}
      [] s = "filled-form" -> {"Form filling failed"}
Surfaces(u, s, m) ==
    /\ u.pc = "done"
    /\ u.res[1].status = "failure"
    /\ u.res[1].message \in StageMessages(s)
    /\ u.res[1].error = Some(m)

\* C17: whichever way the adapter of the awaited stage fails (it throws, it
\* is unreachable, it answers with an error response), the run ends with a
\* failure result that names that stage and whose error is the adapter's
\* message.
C17_MessageVerbatim ==
    \A o \in {"throws", "reject", "invalid"} :
        /\ fpc = "download" =>
              Surfaces(AfterDownload(downloadPdf(o), TRUE, fdoc, <<>>, <<>>),
                       "download", AdapterMessage(o))
        /\ fpc = "fields" =>
              Surfaces(AfterFields(extractFormFields(TRUE, o), {}, fdoc, <<>>, <<>>),
                       "fields", AdapterMessage(o))
        /\ fpc = "mapping" =>
              Surfaces(AfterMapping(mapFieldsToData(CombineDonorData(fdoc), o), TRUE,
                                    fdoc, <<>>, <<>>),
                       "mapping", AdapterMessage(o))
        /\ fpc = "filled-form" =>
              Surfaces(AfterFill(fillForm(TRUE, o), fdoc, <<>>, <<>>),
                       "filled-form", AdapterMessage(o))

\* ------------------------------------------------ properties of the mapper
Answered == mres # Null
Mapped == Answered /\ mres[1].code = 200
\* the confidence of the lowest-numbered tier in which the field matches any
\* donor key (0 if the field matches in no tier)
LowestTier(formField, donorData) ==
    IF formField.name \in Keys(donorData) THEN 100
    ELSE IF Tier2(formField, donorData) # Null THEN 90
    ELSE IF Tier3(formField, donorData) # Null THEN 85
    ELSE IF \E j \in 1..Len(donorData) :
               DescriptionMatch(toLowerCase(formField.description), donorData[j].key)
    THEN 80
    ELSE IF \E j \in 1..Len(donorData) :
               PrefixMatch(toLowerCase(formField.name), donorData[j].key)
    THEN 70
    ELSE 0

\* C18: every result of map carries the confidence of the lowest-numbered
\* tier in which its field matches any donor key; in particular a field
\* whose description contains some donor key is not reported at 0.7.
C18_LowestTierWins ==
    Mapped =>
        \A i \in 1..Len(mres[1].mappedFields) :
            \A f \in 1..Len(mreq.formFields) :
                mreq.formFields[f].name = mres[1].mappedFields[i].fieldName =>
                    mres[1].mappedFields[i].confidence =
                        LowestTier(mreq.formFields[f], mreq.donorData)

\* the request has both members, so the handler calls mapFields
CallsMap == "formFields" \in DOMAIN mreq /\ "donorData" \in DOMAIN mreq

\* C19: for every form field whose name is a donor-data key, map returns a
\* result for that field with confidence 1.0 and with the value and the
\* source of that key.
C19_ExactMatch ==
    (Answered /\ CallsMap) =>
        \A f \in 1..Len(mreq.formFields) :
            mreq.formFields[f].name \in Keys(mreq.donorData) =>
                /\ Mapped
                /\ \E i \in 1..Len(mres[1].mappedFields) :
                      mres[1].mappedFields[i] =
                          MappingResult(mreq.formFields[f].name,
                                        ValueAt(mreq.donorData, mreq.formFields[f].name),
                                        100, mreq.formFields[f].name)

\* C20: map returns a list for every list of form fields and every donor
\* record, without throwing: the empty list when either input is empty, and
\* also when fields match nothing or have no description.
C20_NeverThrows ==
    (Answered /\ CallsMap) =>
        /\ Mapped
        /\ (mreq.formFields = <<>> \/ mreq.donorData = <<>>) =>
              mres[1].mappedFields = <<>>

\* the results of map for the request before the threshold filter
Unfiltered == MapLoop(mreq.formFields, mreq.donorData, 1, <<>>)
FieldsNamed(name) ==
    {f \in 1..Len(mreq.formFields) : mreq.formFields[f].name = name}

\* C21: for formFields = [{name: "first_name"}] and donorData =
\* {firstName: "Jane"}, map returns exactly one result: first_name, value
\* Jane, source firstName, confidence 0.9, at every threshold up to 0.9.
C21_AliasScenario ==
    (/\ Answered /\ CallsMap
     /\ mreq.formFields = <<[name |-> "first_name"]>>
     /\ mreq.donorData = <<[key |-> "firstName", value |-> "Jane"]>>) =>
        /\ Mapped
        /\ mres[1].mappedFields =
              <<MappingResult("first_name", "Jane", 90, "firstName")>>

\* the matching rule of each tier for a (field, donor key) pair
ExactRule(formField, k) == formField.name = k
AliasRule(formField, k) ==
    \E i \in 1..Len(commonFieldMappings) :
        /\ commonFieldMappings[i].key = k
        /\ Matches(toLowerCase(formField.name), commonFieldMappings[i])
ReverseRule(formField, k) ==
    \E i \in 1..Len(commonFieldMappings) :
        /\ Matches(toLowerCase(k), commonFieldMappings[i])
        /\ Matches(toLowerCase(formField.name), commonFieldMappings[i])
\* the lower-cased description contains the key as written
DescriptionRule(formField, k) == includes(toLowerCase(formField.description), k)
\* both have at least 4 characters and the same first 4
PrefixRule(formField, k) ==
    /\ Len(formField.name) >= 4 /\ Len(k) >= 4
    /\ substring(toLowerCase(formField.name), 4) = substring(toLowerCase(k), 4)
TierRule(confidence, formField, k) ==
    CASE confidence = 100 -> ExactRule(formField, k)
      [] confidence = 90 -> AliasRule(formField, k)
      [] confidence = 85 -> ReverseRule(formField, k)
      [] confidence = 80 -> DescriptionRule(formField, k)
      [] confidence = 70 -> PrefixRule(formField, k)
      [] OTHER -> FALSE

\* C22: every result of map has a confidence of {1.0, 0.9, 0.85, 0.8, 0.7},
\* and its field and source key satisfy the matching rule of the tier with
\* that confidence.
C22_ConfidenceOfTier ==
    Mapped =>
        \A i \in 1..Len(mres[1].mappedFields) :
            LET r == mres[1].mappedFields[i]
            IN /\ r.confidence \in {100, 90, 85, 80, 70}
               /\ \A f \in FieldsNamed(r.fieldName) :
                     TierRule(r.confidence, mreq.formFields[f], r.source)

\* C23: the threshold applied and reported is request.confidence whenever
\* the request supplies one (0 included) and 0.7 otherwise, and the results
\* returned are exactly the matches with at least that confidence.
C23_ThresholdApplied ==
    Mapped =>
        LET threshold == IF "confidence" \in DOMAIN mreq
                         THEN mreq.confidence ELSE 70
        IN /\ mres[1].confidenceThreshold = threshold
           /\ mres[1].mappedFields =
                 SelectSeq(Unfiltered.result, LAMBDA r : r.confidence >= threshold)

Range(q) == {q[i] : i \in 1..Len(q)}
HasResult(name) ==
    \E i \in 1..Len(mres[1].mappedFields) : mres[1].mappedFields[i].fieldName = name
IsSource(k) ==
    \E i \in 1..Len(mres[1].mappedFields) : mres[1].mappedFields[i].source = k

\* C24: when the names of the form fields are pairwise distinct, no two
\* results of one map call have the same fieldName, every result belongs to
\* a form field, and every result has at least the confidence of the
\* threshold applied.
C24_UniqueAndAboveThreshold ==
    (/\ Mapped
     /\ \A a, b \in 1..Len(mreq.formFields) :
           a # b => mreq.formFields[a].name # mreq.formFields[b].name) =>
        /\ \A i, j \in 1..Len(mres[1].mappedFields) :
              i # j => mres[1].mappedFields[i].fieldName #
                       mres[1].mappedFields[j].fieldName
        /\ \A i \in 1..Len(mres[1].mappedFields) :
              /\ FieldsNamed(mres[1].mappedFields[i].fieldName) # {}
              /\ mres[1].mappedFields[i].confidence >= mres[1].confidenceThreshold
\* two fields with different names were both mapped at threshold 0.9
C24_Witness ==
    /\ Mapped /\ mres[1].confidenceThreshold = 90
    /\ Len(mres[1].mappedFields) = 2
    /\ mres[1].mappedFields[1].fieldName # mres[1].mappedFields[2].fieldName

\* C25: the unmapped form fields of a response are exactly the form fields
\* without a retained result and the unused donor keys exactly the donor
\* keys that are the source of no retained result, so every form field is
\* either mapped or unmapped and never both.
C25_UnmappedAreTheRest ==
    Mapped =>
        /\ Range(mres[1].unmappedFormFields) =
              {f \in Range(mreq.formFields) : ~HasResult(f.name)}
        /\ \A f \in Range(mreq.formFields) :
              HasResult(f.name) <=> f \notin Range(mres[1].unmappedFormFields)
        /\ Len(mres[1].unmappedFormFields) +
              Cardinality({f \in 1..Len(mreq.formFields) :
                              HasResult(mreq.formFields[f].name)})
              = Len(mreq.formFields)
        /\ Range(mres[1].unmappedDonorFields) =
              {k \in Keys(mreq.donorData) : ~IsSource(k)}
        /\ Len(mres[1].unmappedDonorFields) +
              Cardinality({k \in Keys(mreq.donorData) : IsSource(k)})
              = Len(mreq.donorData)
\* of two form fields one was mapped through an alias and one was not, and
\* of two donor keys one was used and one was not
C25_Witness ==
    /\ Mapped
    /\ Len(mreq.formFields) = 2 /\ Len(mreq.donorData) = 2
    /\ Len(mres[1].mappedFields) = 1
    /\ mres[1].mappedFields[1].source # mres[1].mappedFields[1].fieldName
    /\ Len(mres[1].unmappedFormFields) = 1
    /\ Len(mres[1].unmappedDonorFields) = 1

\* thresholds around every confidence a result can have
Thresholds == {0, 70, 75, 80, 85, 90, 100}

\* C27: filtering a result list at threshold t and filtering the outcome
\* again at t gives the same list, for the results of every request and
\* every t; in particular the list a response returns is its own filter.
C27_FilterIdempotent ==
    /\ (Answered /\ CallsMap) =>
          LET w == Unfiltered
          IN w.kind = "return" =>
                \A t \in Thresholds :
                    LET once == Filter(w.result, t)
                    IN Filter(once, t) = once
    /\ Mapped =>
          Filter(mres[1].mappedFields, mres[1].confidenceThreshold) =
              mres[1].mappedFields
\* a response at threshold 0.9 that kept one match and dropped another
C27_Witness ==
    /\ Mapped /\ mres[1].confidenceThreshold = 90
    /\ Len(mres[1].mappedFields) = 1
    /\ Len(Unfiltered.result) = 2

\* C28: a result at confidence 0.7 is only produced for a field and a donor
\* key that both have at least 4 characters, lower-cased, and the same
\* first 4 characters.
C28_PrefixEquality ==
    Mapped =>
        \A i \in 1..Len(mres[1].mappedFields) :
            mres[1].mappedFields[i].confidence = 70 =>
                \A f \in FieldsNamed(mres[1].mappedFields[i].fieldName) :
                    PrefixRule(mreq.formFields[f], mres[1].mappedFields[i].source)

\* C29: at a threshold of at most 0.8, a field that tiers 1 to 3 do not
\* match has a result at confidence 0.8 exactly when its lower-cased
\* description contains some donor key as written; the request
\* [{name: "xyz", description: "enter client ssn here"}] with
\* {ssn: "123-45-6789"} gives the one result xyz at 0.8 from ssn.
C29_DescriptionVerbatim ==
    (Mapped /\ mres[1].confidenceThreshold <= 80) =>
        /\ \A f \in 1..Len(mreq.formFields) :
              LET formField == mreq.formFields[f]
              IN (/\ Tier1(formField, mreq.donorData) = Null
                  /\ Tier2(formField, mreq.donorData) = Null
                  /\ Tier3(formField, mreq.donorData) = Null) =>
                     ((\E i \in 1..Len(mres[1].mappedFields) :
                          /\ mres[1].mappedFields[i].fieldName = formField.name
                          /\ mres[1].mappedFields[i].confidence = 80)
                      <=> \E k \in Keys(mreq.donorData) :
                              DescriptionRule(formField, k))
        /\ (/\ mreq.formFields =
                  <<[name |-> "xyz", description |-> "enter client ssn here"]>>
            /\ mreq.donorData = <<[key |-> "ssn", value |-> "123-45-6789"]>>) =>
               mres[1].mappedFields =
                   <<MappingResult("xyz", "123-45-6789", 80, "ssn")>>

\* ------------------------------------- properties of a sequence of requests
\* every request answered so far with its response, the current one last
Handled ==
    IF Answered THEN Append(mlog, [request |-> mreq, response |-> mres[1]])
    ELSE mlog

\* C26: the service's own threshold never changes, two requests with the
\* same form fields, donor data and confidence get the same response, and
\* the threshold a response reports depends on its own request only.
C26_Pure ==
    /\ mconf = confidenceThreshold
    /\ \A i, j \in 1..Len(Handled) :
          Handled[i].request = Handled[j].request =>
              Handled[i].response = Handled[j].response
    /\ \A i \in 1..Len(Handled) :
          Handled[i].response.code = 200 =>
              Handled[i].response.confidenceThreshold =
                  IF /\ "confidence" \in DOMAIN Handled[i].request
                     /\ Handled[i].request.confidence # 0
                  THEN Handled[i].request.confidence ELSE confidenceThreshold
\* after a request with threshold 0.9, a request without one kept a
\* reverse-alias match at 0.85
C26_Witness ==
    /\ Len(mlog) = 1 /\ Mapped
    /\ "confidence" \in DOMAIN mlog[1].request
    /\ mlog[1].request.confidence = 90
    /\ "confidence" \notin DOMAIN mreq
    /\ Len(mres[1].mappedFields) = 1
    /\ mres[1].mappedFields[1].confidence = 85

\* ------------------------------------------ properties of the run's cache
Stages == {"download", "fields", "donor-data", "mapping", "filled-form"}
CacheTracksStages ==
    /\ fpc = "idle" => workflowCache = NoData
    /\ fpc # "idle" =>
          /\ DOMAIN workflowCache \subseteq {CacheKey(fid, s) : s \in Stages}
          /\ \A s \in Stages :
                CacheKey(fid, s) \in DOMAIN workflowCache <=> Completed(s)
    /\ RunSucceeded =>
          \A s \in Stages : CacheKey(fid, s) \in DOMAIN workflowCache
EntriesKept ==
    \A k \in DOMAIN workflowCache :
        k \in DOMAIN workflowCache' /\ workflowCache'[k] = workflowCache[k]

C31_SuppressionResponseOnly ==
    (RunFailed /\ skipDownloadOnError(fskip)) =>
        /\ \A s \in {"download", "fields", "donor-data", "mapping"} :
              Completed(s) => CacheKey(fid, s) \in DOMAIN workflowCache
        /\ \A s \in {"download", "fields", "donor-data", "mapping"} :
              Completed(s) => ~Carries(fres[1], s)

\* C32: once field extraction has succeeded the extractor has been invoked
\* for every supplied document; while an extraction is pending its call is
\* in flight, the donor stage is not over and mapping has not been called;
\* the stage ends and mapping starts only when every document has its
\* outcome; and every extraction that was requested either is still pending
\* or has answered itself, whatever the other documents did.
C32_AllOutcomesAwaited ==
    /\ Completed("fields") => \A d \in 1..Len(fdoc) : fdoc[d] # "unstarted"
    /\ \A d \in 1..Len(fdoc) :
          fdoc[d] = "pending" =>
             /\ fpc = "donor-data"
             /\ <<"donor-data", d>> \in finfl
             /\ ~Called("mapping")
             /\ ~\E i \in 1..Len(fev) :
                    fev[i].kind = "done" /\ fev[i].stage = "donor-data"
    /\ (\E i \in 1..Len(fev) : fev[i].kind = "done" /\ fev[i].stage = "donor-data")
          => DonorSettled
    /\ Called("mapping") => DonorSettled
    /\ \A i \in Calls("donor-data") :
          \/ fdoc[fev[i].doc] = "pending"
          \/ \E j \in 1..Len(forder) : forder[j] = fev[i].doc
    /\ \A j \in 1..Len(forder) : fdoc[forder[j]] \in {"success", "failure"}
\* the first document's extraction answered with a failure while the second
\* was pending; the second then answered with success and mapping was called
C32_Witness ==
    /\ Len(fdoc) = 2 /\ forder = <<1, 2>>
    /\ fdoc[1] = "failure" /\ fdoc[2] = "success"
    /\ Called("mapping")

\* C33: in a run with no donor document whose field extraction succeeded,
\* the donor stage completes instead of failing, the donor record it caches
\* and passes to the mapping adapter is empty, the mapping adapter is called,
\* and once mapping has succeeded (with no mapped field) the fill stage is
\* entered.
C33_ZeroDocumentsProceed ==
    (Len(fdoc) = 0 /\ Completed("fields")) =>
        /\ ~FailedAt("donor-data")
        /\ Completed("donor-data")
        /\ DOMAIN DonorRecord = {}
        /\ DOMAIN CombineDonorData(fdoc) = {}
        /\ Called("mapping")
        /\ Completed("mapping") =>
              /\ workflowCache[CacheKey(fid, "mapping")].data["mappedFields"]
                    = Some(<<>>)
              /\ \E i \in 1..Len(fev) : fev[i].stage = "filled-form"
\* a run without donor documents has called the fill adapter
C33_Witness ==
    /\ fpc # "idle" /\ Len(fdoc) = 0
    /\ Completed("donor-data") /\ Called("filled-form")

EntryOf(workflows, q) ==
    IF sid[q][1] \in DOMAIN workflows THEN Some(workflows[sid[q][1]]) ELSE Null
\* the stage outputs cached for request q
CacheOf(cache, q) ==
    [k \in {x \in DOMAIN cache : x[1] = oid[q][1]} |-> cache[k]]
\* the step is the start, a stage answer or the completion of request r, a
\* clear of its workflowId, or a status request answered for its workflowId
OperationOn(r) ==
    \/ spc'[r] # spc[r]
    \/ /\ spc' = spc /\ Started(r)
       /\ sid[r][1] \in DOMAIN activeWorkflows
       /\ sid[r][1] \notin DOMAIN activeWorkflows'
    \/ /\ spc' = spc /\ Started(r)
       /\ reply' # reply /\ reply'[1].kind = "status"
       /\ reply'[1].workflowId = sid[r]

\* C35: a step that is the start, the completion, a status request or a
\* clear of one run leaves the registry entry (status, startTime,
\* completedTime) and the cached stage outputs of every other started run
\* as they were.
C35_RunsAreFramed ==
    [][\A r \in Runs :
          (OperationOn(r) /\ spc'[r] # "idle") =>
              \A q \in Runs \ {r} :
                  Started(q) =>
                      /\ EntryOf(activeWorkflows', q) = EntryOf(activeWorkflows, q)
                      /\ CacheOf(analysisCache', q) = CacheOf(analysisCache, q)]_vars

\* C36: a workflowId that has no registry entry gets one only by the start
\* of a run with that id, never by the completion of a run that was cleared
\* while in flight, so a status request after the clear keeps answering
\* not-found; and the startTime of an entry is the clock reading of the
\* start that gave the id and never changes while the entry exists.
C36_ClearedStaysCleared ==
    /\ [](\A id \in DOMAIN activeWorkflows : activeWorkflows[id].startTime = id[2])
    /\ [][\A id \in ServiceIds :
            /\ (id \notin DOMAIN activeWorkflows /\ id \in DOMAIN activeWorkflows') =>
                  \E p \in Runs :
                      spc[p] = "idle" /\ spc'[p] # "idle" /\ sid'[p] = Some(id)
            /\ (id \in DOMAIN activeWorkflows /\ id \in DOMAIN activeWorkflows') =>
                  activeWorkflows'[id].startTime = activeWorkflows[id].startTime]_vars

\* C37: the terminal status in the registry entry of a finished run is the
\* status of the result runPdfAnalysisWorkflow returned for that run; a run
\* whose result is success has the successful output of both of its stages
\* in the cache, and no stage answer other than success lets the run go on
\* or end with success.
C37_RegistryStatusIsResult ==
    /\ \A p \in Runs :
          (/\ spc[p] = "done"
           /\ sid[p][1] \in DOMAIN activeWorkflows
           /\ Terminal(activeWorkflows[sid[p][1]].status)) =>
              activeWorkflows[sid[p][1]].status = sres[p][1]
    /\ \A p \in Runs :
          sres[p] = Some("success") =>
              \A stage \in {"download", "extraction"} :
                  /\ CacheKey(oid[p][1], stage) \in DOMAIN analysisCache
                  /\ analysisCache[CacheKey(oid[p][1], stage)].status = "success"
    /\ \A o \in AdapterOutcomes, id \in {AnalysisWorkflowId(t) : t \in Clock} :
          /\ AnalysisAfterDownload(id, downloadPdf(o)).go => o = "success"
          /\ ~AnalysisAfterDownload(id, downloadPdf(o)).go =>
                AnalysisAfterDownload(id, downloadPdf(o)).result.status = "failure"
          /\ AnalysisAfterExtract(id, extractFormFields(TRUE, o)).result.status
                = "success" => o = "success"
          /\ AnalysisAfterExtract(id, extractFormFields(FALSE, o)).result.status
                = "failure"

\* ------------------------------------------------- properties of the page
\* C38: every status polling of the page goes on until the status it
\* receives is success or failure (or the request itself fails) and sends no
\* request after that; whenever the page is at step 3 a result URL is set (so the filled-form
\* viewer is rendered); and a click on the progress bar changes the active
\* step only to a lower one.
C38_PollingAndSteps ==
    /\ [](/\ \A p \in Runs :
                /\ upc[p] = "polling" => ~Terminal(ulast[p])
                /\ (upc[p] = "stopped" /\ ulast[p] # "none") =>
                      (Terminal(ulast[p]) \/ ulast[p] = "error")
          /\ activeStep = 3 => resultUrl # Null)
    /\ [][/\ \A p \in Runs :
                Terminal(ulast[p]) => (upc'[p] = "stopped" /\ ulast'[p] = ulast[p])
          /\ (uevent' = "click" /\ activeStep' # activeStep) =>
                activeStep' < activeStep]_vars

\* --------------------------------- properties of the fill-form handler
Arrived(q) == hpc[q] # "idle"
IsError(response) == response.code >= 400
FillerRan(q, filler, o) ==
    \E i \in 1..Len(hran[q]) : hran[q][i] = [filler |-> filler, outcome |-> o]
Incomplete(q) ==
    "formPath" \notin DOMAIN hreq[q].body \/ "formData" \notin DOMAIN hreq[q].body
BothFailed(q) == FillerRan(q, "python", "reject") /\ FillerRan(q, "js", "reject")
\* at most one response, sent when the handler ends; Python before
\* JavaScript, JavaScript only after a failure of Python, and success of
\* Python answered with success at once
OneResponsePythonFirst(q) ==
    /\ Len(hsent[q]) <= 1
    /\ (hpc[q] = "done") <=> (Len(hsent[q]) = 1)
    /\ Len(hran[q]) <= 2
    /\ Len(hran[q]) >= 1 => hran[q][1].filler = "python"
    /\ Len(hran[q]) = 2 => hran[q][2].filler = "js"
    /\ (hpc[q] = "js" \/ Len(hran[q]) = 2) =>
          hran[q][1] = [filler |-> "python", outcome |-> "reject"]
    /\ FillerRan(q, "python", "resolve") =>
          /\ Len(hran[q]) = 1
          /\ hpc[q] = "done"
          /\ hsent[q] = <<Response(200, "success",
                                   "Form filled successfully with Python FormFiller",
                                   Some(OutputPath(hreq[q].body)))>>
    /\ (Len(hsent[q]) = 1 /\ ~IsError(hsent[q][1])) =>
          (FillerRan(q, "python", "resolve") \/ FillerRan(q, "js", "resolve"))
\* a request without a response is one whose handler can still send it: the
\* server process is up, and a handler awaiting the Python filler has a
\* Python process that has not closed yet
StillAnswerable(q) ==
    /\ ~bcrashed
    /\ hpc[q] = "python" => bpc[q] \in {"spawned", "running"}

\* C39: every request that carries the form path and the form data gets
\* exactly one response (never two, and never none once nothing is left for
\* its handler to wait for); the Python filler is tried first, its success
\* is answered without running the JavaScript filler, the JavaScript filler
\* runs only after Python failed; and an error is answered only when both
\* fillers failed or the form file does not exist.
C39_OneResponse ==
    \A q \in Runs :
        (Arrived(q) /\ ~Incomplete(q)) =>
            /\ OneResponsePythonFirst(q)
            /\ Len(hsent[q]) = 0 => StillAnswerable(q)
            /\ (Len(hsent[q]) = 1 /\ IsError(hsent[q][1])) =>
                  (BothFailed(q) \/ ~hreq[q].exists)

\* --------------------------------------- properties of the Python bridge
BridgeCalled(c) == bpc[c] # "idle"
\* C40: calls of executePythonFunction never share a temporary script: the
\* script files of two calls whose processes have not closed are distinct,
\* the process of a call reads the script of that call, and the close
\* listener of a call removes the script of that call, once, and nothing
\* else, whatever the clock readings of the calls.
C40_OwnScript ==
    /\ ~bcrashed
    /\ \A c \in Runs :
          BridgeCalled(c) =>
              /\ bran[c] # Null => bran[c] = Some(c)
              /\ bpc[c] = "closed" <=> bdel[c] = <<c>>
              /\ bpc[c] # "closed" => bdel[c] = <<>>
              /\ bpc[c] \in {"spawned", "running"} =>
                    (bpath[c][1] \in DOMAIN bfiles /\ bfiles[bpath[c][1]] = c)
              /\ \A d \in Runs \ {c} :
                    (BridgeCalled(d) /\ bpc[c] # "closed" /\ bpc[d] # "closed") =>
                        bpath[c] # bpath[d]

====
